---- MODULE Spec2Model ----
(***************************************************************************)
(* Message exchange pipeline of the corporate / low-side DMZ nodes:        *)
(* the project whitelist (corporate/app/whitelist.py), the durable file    *)
(* store (corporate/app/file_store.py, low_side/app/file_store.py), the    *)
(* gateway client (corporate/app/gateway_client.py), the two message       *)
(* endpoints (corporate/app/main.py), the send form of the user portal     *)
(* (corporate/app/user.py, low_side/app/user.py) and the login sessions    *)
(* (corporate/app/auth.py, low_side/app/auth.py).                          *)
(***************************************************************************)
EXTENDS Naturals, Integers, Sequences, FiniteSets, TLC

\* ------------------------------------------------------------------ bounds
\* Largest value of the wall clock that stamps file modification times.
MaxClock == 2

\* Largest value of the wall clock when it times sessions.
MaxTime == 3

\* Project codes, message ids and dates the model draws inputs from.
Projects == {"AAA", "BBB"}
Ids == {"id1", "id2"}
Nodes == {"corporate", "low_side"}

\* "30012026T11:22:33" and "15062025T09:00:00" as character sequences.
Date1 == <<"3","0","0","1","2","0","2","6","T","1","1",":","2","2",":","3","3">>
Date2 == <<"1","5","0","6","2","0","2","5","T","0","9",":","0","0",":","0","0">>
Dates == {Date1, Date2}

VARIABLES
    wl_file,     \* whitelist.json: [state, projects]
    wl_mtime,    \* st_mtime of whitelist.json (0 when stat fails)
    cache,       \* ProjectWhitelist._cache
    last_mtime,  \* ProjectWhitelist._last_mtime
    clock,       \* wall clock, the source of modification times
    node,        \* which node variant's FileStore this is
    files,       \* the destination tree: final path -> stored message
    tmp,         \* the temp directory: message id -> temp file
    w,           \* the write_message call in progress, if any
    w2,          \* the write_message call of a second worker process, if any
    req,         \* the request being handled by send_message / receive_message
    last,        \* history: the most recent direct whitelist call and its result
    replies,     \* history: how each attempt of the deliver call in progress ended
    th,          \* the whitelist call each thread / CLI run is in, if any
    lock,        \* holder of the server's ProjectWhitelist._lock ("-": free)
    wl_tmp,      \* whitelist.json.tmp: [state, projects, mtime]
    flight,      \* the requests in flight at once, each in its own task
    request_id_var, \* utils.request_id_var: the value in each task's context
    active_sessions, \* auth.active_sessions: token -> [type, username, expiry]
    sess,        \* history: tokens issued, tokens ended, the last auth call
    portal       \* the user portal's module globals: which of them are set

wlvars == <<wl_file, wl_mtime, cache, last_mtime, clock>>
storevars == <<node, files, tmp, w, w2>>
concvars == <<th, lock, wl_tmp>>
flightvars == <<flight, request_id_var>>
uivars == <<active_sessions, sess, portal>>
vars == <<wl_file, wl_mtime, cache, last_mtime, clock, node, files, tmp, w, w2, req, last,
         replies, th, lock, wl_tmp, flight, request_id_var, active_sessions, sess,
         portal>>

\* ---------------------------------------------------------------- whitelist
\* A projects map: project code -> enabled flag, for the codes that have an entry.
ProjectMaps == UNION {[S -> BOOLEAN] : S \in SUBSET Projects}

EmptyMap == [c \in {} |-> TRUE]

\* The backing file: a JSON document with a projects map ("ok"), a file that
\* does not parse as JSON ("invalid"), or no file at all ("missing").
FileOf(projects) == [state |-> "ok", projects |-> projects]

FileContents == {FileOf(m) : m \in ProjectMaps}
                \cup {[state |-> s, projects |-> EmptyMap] : s \in {"invalid", "missing"}}

\* self.file_path.stat().st_mtime, 0 when the stat fails (file missing).
current_mtime == IF wl_file.state = "missing" THEN 0 ELSE wl_mtime

\* _read_data: the projects map of the file, or an error.
read_data == IF wl_file.state # "ok"
             THEN [err |-> TRUE, projects |-> EmptyMap]
             ELSE [err |-> FALSE, projects |-> wl_file.projects]

\* Fault: the file is read once and the cache is kept for good.
get_projects_never_reload ==
    IF last_mtime = 0 /\ current_mtime # last_mtime /\ ~read_data.err
    THEN [err |-> FALSE, cache |-> read_data.projects,
          last_mtime |-> current_mtime, reloaded |-> TRUE]
    ELSE [err |-> FALSE, cache |-> cache, last_mtime |-> last_mtime, reloaded |-> FALSE]

\* _get_projects: reload when the mtime differs from the last one seen.
\* Gives the cache and last-seen mtime after the call, whether it raised and
\* whether it re-read the file.
get_projects ==
    IF current_mtime # last_mtime
    THEN IF read_data.err
         THEN [err |-> TRUE, cache |-> cache, last_mtime |-> last_mtime,
               reloaded |-> FALSE]
         ELSE [err |-> FALSE, cache |-> read_data.projects,
               last_mtime |-> current_mtime, reloaded |-> TRUE]
    ELSE [err |-> FALSE, cache |-> cache, last_mtime |-> last_mtime, reloaded |-> FALSE]

\* Fault: a project without an entry is let through.
allowed_in_absent_ok(projects, code) ==
    IF code \notin DOMAIN projects THEN TRUE ELSE projects[code]

\* Fault: the enabled flag of the entry is not looked at.
allowed_in_ignore_flag(projects, code) == code \in DOMAIN projects

\* The value is_project_allowed computes from a loaded projects map.
allowed_in(projects, code) ==
    IF code \notin DOMAIN projects THEN FALSE ELSE projects[code]

Bool2Str(b) == IF b THEN "true" ELSE "false"

\* The map with the entry of code removed (del projects[code]).
Without(projects, code) == [c \in (DOMAIN projects) \ {code} |-> projects[c]]

\* The map with the entry of code set (projects[code] = {"enabled": enabled}).
With(projects, code, enabled) ==
    [c \in (DOMAIN projects) \cup {code} |-> IF c = code THEN enabled ELSE projects[c]]

\* The outcome of a whitelist call: the file, cache and last-seen mtime it
\* leaves behind and what it returned ("error", "write_error": WhitelistError).
Outcome(file, mtime, c, lm, res, reloaded) ==
    [file |-> file, mtime |-> mtime, cache |-> c, last_mtime |-> lm, res |-> res,
     reloaded |-> reloaded]

\* The read-through raised WhitelistError: nothing was assigned.
RaisedOnRead == Outcome(wl_file, wl_mtime, cache, last_mtime, "error", FALSE)

\* The call returned without saving: only the read-through took effect.
ReturnedEarly(g, res) ==
    Outcome(wl_file, wl_mtime, g.cache, g.last_mtime, res, g.reloaded)

\* Fault: the answer is taken from the cache as it was before the read-through.
is_project_allowed_stale(code) ==
    LET g == get_projects IN
    IF g.err THEN RaisedOnRead
    ELSE ReturnedEarly(g, Bool2Str(allowed_in(cache, code)))

\* is_project_allowed(code)
is_project_allowed(code) ==
    LET g == get_projects IN
    IF g.err THEN RaisedOnRead
    ELSE ReturnedEarly(g, Bool2Str(allowed_in(g.cache, code)))

\* Fault: the file is written but the cache keeps the map read before.
save_projects_stale_cache(projects, aliased, g, ok) ==
    IF ok
    THEN Outcome(FileOf(projects), clock, g.cache, clock, "ok", g.reloaded)
    ELSE Outcome(wl_file, wl_mtime, aliased, g.last_mtime, "write_error", g.reloaded)

\* _save_projects(projects) reached with the cache in state `aliased`
\* (the shallow copy shares the per-project dicts with the cache, so an
\* in-place change of an entry is already visible in the cache).
\* ok = FALSE: _write_data raised WhitelistError before os.replace.
save_projects(projects, aliased, g, ok) ==
    IF ok
    THEN Outcome(FileOf(projects), clock, projects, clock, "ok", g.reloaded)
    ELSE Outcome(wl_file, wl_mtime, aliased, g.last_mtime, "write_error", g.reloaded)

\* Fault: the entry is written before the duplicate is reported.
add_project_overwrite(code, enabled, ok) ==
    LET g == get_projects IN
    IF g.err THEN RaisedOnRead
    ELSE LET o == Outcome(FileOf(With(g.cache, code, enabled)), clock,
                          With(g.cache, code, enabled), clock, "ok", g.reloaded)
         IN  IF code \in DOMAIN g.cache THEN [o EXCEPT !.res = "exists"] ELSE o

\* add_project(code, enabled)
add_project(code, enabled, ok) ==
    LET g == get_projects IN
    IF g.err THEN RaisedOnRead
    ELSE IF code \in DOMAIN g.cache
         THEN ReturnedEarly(g, "exists")
         ELSE save_projects(With(g.cache, code, enabled), g.cache, g, ok)

\* Fault: a missing entry is created with the flag and False is returned.
set_enabled_upsert(code, enabled, ok) ==
    LET g == get_projects
        projects == With(g.cache, code, enabled)
    IN  IF g.err THEN RaisedOnRead
        ELSE IF code \notin DOMAIN g.cache
             THEN [save_projects(projects, g.cache, g, TRUE) EXCEPT !.res = "false"]
             ELSE save_projects(projects, projects, g, ok)

\* enable_project / disable_project(code): set the flag of an existing entry.
set_enabled(code, enabled, ok) ==
    LET g == get_projects IN
    IF g.err THEN RaisedOnRead
    ELSE IF code \notin DOMAIN g.cache
         THEN ReturnedEarly(g, "false")
         ELSE LET projects == With(g.cache, code, enabled)
              IN  save_projects(projects, projects, g, ok)

enable_project(code, ok) == set_enabled(code, TRUE, ok)

disable_project(code, ok) == set_enabled(code, FALSE, ok)

\* remove_project(code)
remove_project(code, ok) ==
    LET g == get_projects IN
    IF g.err THEN RaisedOnRead
    ELSE IF code \notin DOMAIN g.cache
         THEN ReturnedEarly(g, "false")
         ELSE save_projects(Without(g.cache, code), g.cache, g, ok)

\* list_projects(): the sorted (code, enabled) pairs, here as a set of pairs.
list_projects ==
    LET g == get_projects IN
    IF g.err THEN [out |-> RaisedOnRead, items |-> {}]
    ELSE [out |-> ReturnedEarly(g, "ok"),
          items |-> {<<c, g.cache[c]>> : c \in DOMAIN g.cache}]

\* The call takes effect on the whitelist object and its file.
Commit(o) ==
    /\ wl_file' = o.file
    /\ wl_mtime' = o.mtime
    /\ cache' = o.cache
    /\ last_mtime' = o.last_mtime
    /\ UNCHANGED clock

IsAllowed(code) == Commit(is_project_allowed(code))

AddProject(code, enabled, ok) == Commit(add_project(code, enabled, ok))

EnableProject(code, ok) == Commit(enable_project(code, ok))

DisableProject(code, ok) == Commit(disable_project(code, ok))

RemoveProject(code, ok) == Commit(remove_project(code, ok))

ListProjects == Commit(list_projects.out)

\* A direct edit of whitelist.json by another process or by hand.
ExternalRewrite(content) ==
    /\ wl_file' = content
    /\ wl_mtime' = IF content.state = "missing" THEN 0 ELSE clock
    /\ UNCHANGED <<cache, last_mtime, clock>>

\* Time passes: a later write gets a later modification time.
Tick ==
    /\ clock < MaxClock
    /\ clock' = clock + 1
    /\ UNCHANGED <<wl_file, wl_mtime, cache, last_mtime>>

\* The history variable: which call was made last, and what it returned.
LastOp(op, code, val, o) ==
    [op |-> op, code |-> code, val |-> val, res |-> o.res, reloaded |-> o.reloaded]

\* Not a call: an edit of the file, the passing of time, or start-up.
NoCall(what) == [op |-> what, code |-> "-", val |-> FALSE, res |-> "ok", reloaded |-> FALSE]

\* ---------------------------------------------------- whitelist, concurrent
\* Callers of the whitelist: two threads of the server process, which share
\* one ProjectWhitelist object, and a run of scripts/whitelist_admin.py, a
\* separate process that constructs its own object on the same file.
Threads == {"t1", "t2"}
Cli == "cli"
Callers == Threads \cup {Cli}

NoTmp == [state |-> "none", projects |-> EmptyMap, mtime |-> 0]

\* No call in progress. projects: the local `projects` handed to
\* _save_projects; fd: where the file this caller has open for writing is
\* now ("tmp", "file" once renamed over whitelist.json, "gone" once unlinked
\* or replaced). base is history: the file's map when the round of calls began.
IdleCall == [pc |-> "idle", op |-> "-", code |-> "-", val |-> FALSE,
             projects |-> EmptyMap, res |-> "-", fd |-> "-", base |-> EmptyMap]

\* _get_projects as the caller's object runs it: the threads use the
\* server's cache; a CLI run starts from __init__ (empty cache, _last_mtime 0).
get_projects_of(c) ==
    IF c \in Threads THEN get_projects
    ELSE IF current_mtime = 0
         THEN [err |-> FALSE, cache |-> EmptyMap, last_mtime |-> 0, reloaded |-> FALSE]
         ELSE IF read_data.err
              THEN [err |-> TRUE, cache |-> EmptyMap, last_mtime |-> 0, reloaded |-> FALSE]
              ELSE [err |-> FALSE, cache |-> read_data.projects,
                    last_mtime |-> current_mtime, reloaded |-> TRUE]

\* An operation from the return of its _get_projects() (g) up to its own
\* return or raise, or up to its call of _save_projects(projects).
after_get(call, g) ==
    LET done(res) == [call EXCEPT !.pc = "done", !.res = res]
        save(projects) == [call EXCEPT !.pc = "save", !.projects = projects]
    IN  IF g.err THEN done("error")
        ELSE IF call.op = "is_allowed"
             THEN done(Bool2Str(allowed_in(g.cache, call.code)))
        ELSE IF call.op = "list"
             THEN [done("ok") EXCEPT !.projects = g.cache]
        ELSE IF call.op = "add"
             THEN IF call.code \in DOMAIN g.cache THEN done("exists")
                  ELSE save(With(g.cache, call.code, call.val))
        ELSE IF call.code \notin DOMAIN g.cache THEN done("false")
        ELSE IF call.op = "remove" THEN save(Without(g.cache, call.code))
        ELSE save(With(g.cache, call.code, call.val))

\* The caller enters an operation.
Call(c, op, code, val, base) ==
    /\ th[c].pc = "idle"
    /\ th' = [th EXCEPT ![c] = [IdleCall EXCEPT !.pc = "get", !.op = op, !.code = code,
                                                !.val = val, !.base = base]]
    /\ UNCHANGED <<wlvars, lock, wl_tmp>>

\* History: the file's map when the first call of the round in progress began.
RoundBase ==
    IF \A d \in Callers : th[d].pc = "idle"
    THEN wl_file.projects
    ELSE th[CHOOSE d \in Callers : th[d].pc # "idle"].base

\* _get_projects() under the lock, then the operation's own statements up
\* to _save_projects. enable and disable assign the flag through the shallow
\* copy, that is, in the cache's entry.
GetProjects(c) ==
    /\ th[c].pc = "get"
    /\ c \in Threads => lock = "-"
    /\ LET g == get_projects_of(c)
           call == after_get(th[c], g)
       IN  /\ th' = [th EXCEPT ![c] = call]
           /\ IF c \in Threads
              THEN /\ cache' = IF call.pc = "save" /\ call.op \in {"enable", "disable"}
                               THEN call.projects ELSE g.cache
                   /\ last_mtime' = g.last_mtime
              ELSE UNCHANGED <<cache, last_mtime>>
    /\ UNCHANGED <<wl_file, wl_mtime, clock, lock, wl_tmp>>

\* _save_projects: `with self._lock` entered (the lock of the caller's object).
Acquire(c) ==
    /\ th[c].pc = "save"
    /\ c \in Threads => lock = "-"
    /\ lock' = IF c \in Threads THEN c ELSE lock
    /\ th' = [th EXCEPT ![c].pc = "open"]
    /\ UNCHANGED <<wlvars, wl_tmp>>

\* The other callers' open files after the file at whitelist.json.tmp was
\* renamed over whitelist.json (to = "file") or unlinked (to = "gone").
Moved(t, c, to) ==
    [d \in Callers |->
        IF d = c THEN t[d]
        ELSE IF t[d].fd = "tmp" THEN [t[d] EXCEPT !.fd = to]
        ELSE IF t[d].fd = "file" /\ to = "file" THEN [t[d] EXCEPT !.fd = "gone"]
        ELSE t[d]]

\* _write_data: open(tmp_path, "w") creates the temp file or truncates the
\* one that is there.
WlOpen(c, ok) ==
    /\ th[c].pc = "open"
    /\ IF ok
       THEN /\ wl_tmp' = [state |-> "partial", projects |-> EmptyMap, mtime |-> clock]
            /\ th' = [th EXCEPT ![c].pc = "dump", ![c].fd = "tmp"]
       ELSE /\ th' = [th EXCEPT ![c].pc = "except"]
            /\ UNCHANGED wl_tmp
    /\ UNCHANGED <<wlvars, lock>>

\* json.dump, flush, fsync and the close of the with block: the document is
\* written to the file the caller opened, wherever that file is by now.
WlDump(c, ok) ==
    /\ th[c].pc = "dump"
    /\ th' = [th EXCEPT ![c].pc = IF ok THEN "replace" ELSE "except", ![c].fd = "-"]
    /\ IF ok /\ th[c].fd = "tmp"
       THEN /\ wl_tmp' = [state |-> "full", projects |-> th[c].projects, mtime |-> clock]
            /\ UNCHANGED <<wl_file, wl_mtime>>
       ELSE IF ok /\ th[c].fd = "file"
       THEN /\ wl_file' = FileOf(th[c].projects)
            /\ wl_mtime' = clock
            /\ UNCHANGED wl_tmp
       ELSE UNCHANGED <<wl_file, wl_mtime, wl_tmp>>
    /\ UNCHANGED <<cache, last_mtime, clock, lock>>

\* os.replace(tmp_path, self.file_path): whatever is at the temp path now
\* becomes whitelist.json; OSError when nothing is there.
WlReplace(c, ok) ==
    /\ th[c].pc = "replace"
    /\ IF ok /\ wl_tmp.state # "none"
       THEN /\ wl_file' = [state |-> IF wl_tmp.state = "full" THEN "ok" ELSE "partial",
                           projects |-> wl_tmp.projects]
            /\ wl_mtime' = wl_tmp.mtime
            /\ wl_tmp' = NoTmp
            /\ th' = Moved([th EXCEPT ![c].pc = "stat"], c, "file")
       ELSE /\ th' = [th EXCEPT ![c].pc = "except"]
            /\ UNCHANGED <<wl_file, wl_mtime, wl_tmp>>
    /\ UNCHANGED <<cache, last_mtime, clock, lock>>

\* Fault: the exception leaves _save_projects with the lock still held.
WlExcept_keep_lock(c) ==
    /\ th[c].pc = "except"
    /\ wl_tmp' = NoTmp
    /\ th' = Moved([th EXCEPT ![c].pc = "done", ![c].res = "write_error"], c, "gone")
    /\ UNCHANGED lock
    /\ UNCHANGED wlvars

\* except OSError: unlink the temp file if one exists, raise WhitelistError;
\* the exception leaves _save_projects and releases the lock.
WlExcept(c) ==
    /\ th[c].pc = "except"
    /\ wl_tmp' = NoTmp
    /\ th' = Moved([th EXCEPT ![c].pc = "done", ![c].res = "write_error"], c, "gone")
    /\ lock' = IF c \in Threads THEN "-" ELSE lock
    /\ UNCHANGED wlvars

\* self._cache = projects; self._last_mtime = stat().st_mtime; the lock is
\* released and the operation returns. With the file gone by now, stat()
\* raises after the cache was assigned; the exception releases the lock too.
WlStat(c) ==
    /\ th[c].pc = "stat"
    /\ th' = [th EXCEPT ![c].pc = "done",
                        ![c].res = IF wl_file.state = "missing" THEN "stat_error" ELSE "ok"]
    /\ IF c \in Threads
       THEN /\ cache' = th[c].projects
            /\ last_mtime' = IF wl_file.state = "missing" THEN last_mtime
                             ELSE current_mtime
            /\ lock' = "-"
       ELSE UNCHANGED <<cache, last_mtime, lock>>
    /\ UNCHANGED <<wl_file, wl_mtime, clock, wl_tmp>>

\* The caller has its result and can make its next call.
Return(c) ==
    /\ th[c].pc = "done"
    /\ th' = [th EXCEPT ![c] = IdleCall]
    /\ UNCHANGED <<wlvars, lock, wl_tmp>>

\* Every call of the round has returned.
RoundEnd ==
    /\ \E c \in Callers : th[c].pc = "done"
    /\ \A c \in Callers : th[c].pc \in {"idle", "done"}
    /\ th' = [c \in Callers |-> IdleCall]
    /\ UNCHANGED <<wlvars, lock, wl_tmp>>

\* -------------------------------------------------------------------- store
\* message_data as handed to write_message.
\* keys: how the two fields with an alias are spelled in the document,
\* "alias" ("Test ID", "Test Status") or "name" (test_id, test_status).
Messages == [ID : Ids, Project : Projects, Date : Dates, keys : {"alias"}]

NoMsg == [ID |-> "-", Project |-> "-", Date |-> <<>>, keys |-> "-"]

\* Fault: the string is read as MMddyyyy, month and day change places.
parse_date_components_mmdd(date_str) ==
    <<SubSeq(date_str, 5, 8), SubSeq(date_str, 1, 2), SubSeq(date_str, 3, 4)>>

\* parse_date_components: (year, month, day) sliced from ddMMyyyyThh:mm:ss.
parse_date_components(date_str) ==
    <<SubSeq(date_str, 5, 8), SubSeq(date_str, 3, 4), SubSeq(date_str, 1, 2)>>

\* Fault: the file name is fixed, so every message of a directory shares
\* one path.
get_final_path_fixed_name(n, m) ==
    IF n = "corporate"
    THEN <<"master", m.Project, "message">>
    ELSE LET ymd == parse_date_components(m.Date)
         IN  <<"incoming", ymd[1], ymd[2], ymd[3], "message">>

\* Fault: the corporate path also depends on the message's date.
get_final_path_by_date(n, m) ==
    IF n = "corporate"
    THEN <<"master", m.Project, m.Date, m.ID>>
    ELSE LET ymd == parse_date_components(m.Date)
         IN  <<"incoming", ymd[1], ymd[2], ymd[3], m.ID>>

\* _get_final_path of the two nodes.
get_final_path(n, m) ==
    IF n = "corporate"
    THEN <<"master", m.Project, m.ID>>
    ELSE LET ymd == parse_date_components(m.Date)
         IN  <<"incoming", ymd[1], ymd[2], ymd[3], m.ID>>

\* _get_tmp_path: {tmp_dir}/{message_id}.json.tmp
get_tmp_path(m) == m.ID

\* The message id a stored path belongs to: the stem of its file name.
PathId(path) == path[Len(path)]

NoFiles == [x \in {} |-> NoMsg]

\* No call in progress.  fd: where the file the call has open for writing is
\* now (<<>>: none open; the temp path; the final path it was renamed to;
\* "gone" once unlinked or replaced).  before, replaced and cleanup are
\* history: the destination tree at entry, what the rename found, what the
\* cleanup did.
Idle == [pc |-> "idle", msg |-> NoMsg, res |-> "-", replaced |-> "-", cleanup |-> "-",
         before |-> NoFiles, fd |-> <<>>]

AtTmp == <<"tmp">>
Gone == <<"gone">>

Put(f, k, v) == [x \in (DOMAIN f) \cup {k} |-> IF x = k THEN v ELSE f[x]]

Drop(f, k) == [x \in (DOMAIN f) \ {k} |-> f[x]]

\* The store as one value: destination tree, temp directory, the call in
\* progress and the call of the other worker on the same directories.
Store == [files |-> files, tmp |-> tmp, w |-> w, peer |-> w2]

\* The same store as the second worker sees it.
Store2 == [files |-> files, tmp |-> tmp, w |-> w2, peer |-> w]

\* The other worker's open file after the file at temp path t was renamed to
\* `to` or unlinked (to = Gone), replacing whatever was at `to`.
moved(peer, t, to) ==
    IF peer.fd = AtTmp /\ get_tmp_path(peer.msg) = t THEN [peer EXCEPT !.fd = to]
    ELSE IF peer.fd = to /\ to # Gone THEN [peer EXCEPT !.fd = Gone]
    ELSE peer

\* write_message(message_data): paths computed, the try block entered.
write_begin(st, m) ==
    [st EXCEPT !.w = [Idle EXCEPT !.pc = "mkdir", !.msg = m, !.before = st.files]]

\* A step of the try block raised: control moves to the except clause.
raised(st) == [st EXCEPT !.w.pc = "except", !.w.fd = <<>>]

\* final_path.parent.mkdir(parents=True, exist_ok=True)
write_mkdir(st, ok) == IF ok THEN [st EXCEPT !.w.pc = "open"] ELSE raised(st)

\* open(tmp_path, "w"): creates or truncates the temp file.
write_open(st, ok) ==
    IF ok
    THEN [st EXCEPT !.w.pc = "dump", !.w.fd = AtTmp,
                    !.tmp = Put(st.tmp, get_tmp_path(st.w.msg),
                                [full |-> FALSE, msg |-> NoMsg])]
    ELSE raised(st)

\* Fault: the document is still in the buffer when the file is renamed.
write_dump_unflushed(st, ok) ==
    IF ok THEN [st EXCEPT !.w.pc = "fsync"] ELSE raised(st)

\* json.dump(message_data, f) and f.flush(): the document goes to the file
\* the call opened, wherever that file is by now; a failure leaves a partial
\* file.
write_dump(st, ok) ==
    IF ~ok THEN raised(st)
    ELSE IF st.w.fd = AtTmp
    THEN [st EXCEPT !.w.pc = "fsync",
                    !.tmp = Put(st.tmp, get_tmp_path(st.w.msg),
                                [full |-> TRUE, msg |-> st.w.msg])]
    ELSE IF st.w.fd = Gone
    THEN [st EXCEPT !.w.pc = "fsync"]
    ELSE [st EXCEPT !.w.pc = "fsync", !.files = Put(st.files, st.w.fd, st.w.msg)]

\* os.fsync(f.fileno()) and the close of the with block.
write_fsync(st, ok) ==
    IF ok THEN [st EXCEPT !.w.pc = "rename", !.w.fd = <<>>] ELSE raised(st)

\* Fault: an existing record is kept and the new content dropped.
write_rename_keep_existing(n, st, ok) ==
    LET t == get_tmp_path(st.w.msg)
        final_path == get_final_path(n, st.w.msg)
    IN  IF ok /\ t \in DOMAIN st.tmp
        THEN [files |-> IF final_path \in DOMAIN st.files THEN st.files
                        ELSE Put(st.files, final_path, st.tmp[t].msg),
              tmp |-> Drop(st.tmp, t),
              peer |-> moved(st.peer, t, final_path),
              w |-> [st.w EXCEPT !.pc = "done", !.res = "ok",
                        !.replaced = IF final_path \notin DOMAIN st.files THEN "new"
                                     ELSE IF st.files[final_path] = st.tmp[t].msg
                                          THEN "same" ELSE "different"]]
        ELSE raised(st)

\* tmp_path.rename(final_path): replaces the destination in one step (POSIX),
\* then return final_path.
write_rename(n, st, ok) ==
    LET t == get_tmp_path(st.w.msg)
        final_path == get_final_path(n, st.w.msg)
    IN  IF ok /\ t \in DOMAIN st.tmp
        THEN [files |-> Put(st.files, final_path, st.tmp[t].msg),
              tmp |-> Drop(st.tmp, t),
              peer |-> moved(st.peer, t, final_path),
              w |-> [st.w EXCEPT !.pc = "done", !.res = "ok",
                        !.replaced = IF final_path \notin DOMAIN st.files THEN "new"
                                     ELSE IF st.files[final_path] = st.tmp[t].msg
                                          THEN "same" ELSE "different"]]
        ELSE raised(st)

\* Fault: the except clause raises without removing the temp file.
write_except_no_cleanup(st, unlink_ok) ==
    [st EXCEPT !.w = [st.w EXCEPT !.pc = "done", !.res = "FileStoreError",
                                  !.cleanup = "no_tmp"]]

\* except clause: unlink the temp file if it exists (a failing unlink is
\* swallowed), then raise FileStoreError.
write_except(st, unlink_ok) ==
    LET t == get_tmp_path(st.w.msg)
        err(c) == [st.w EXCEPT !.pc = "done", !.res = "FileStoreError", !.cleanup = c]
    IN  IF t \in DOMAIN st.tmp
        THEN IF unlink_ok
             THEN [st EXCEPT !.tmp = Drop(st.tmp, t), !.w = err("unlinked"),
                             !.peer = moved(st.peer, t, Gone)]
             ELSE [st EXCEPT !.w = err("unlink_failed")]
        ELSE [st EXCEPT !.w = err("no_tmp")]

\* The statement write_message is at, executed with outcome ok.
write_step(n, st, ok) ==
    IF st.w.pc = "mkdir" THEN write_mkdir(st, ok)
    ELSE IF st.w.pc = "open" THEN write_open(st, ok)
    ELSE IF st.w.pc = "dump" THEN write_dump(st, ok)
    ELSE IF st.w.pc = "fsync" THEN write_fsync(st, ok)
    ELSE IF st.w.pc = "rename" THEN write_rename(n, st, ok)
    ELSE IF st.w.pc = "except" THEN write_except(st, ok)
    ELSE st

\* Where a write can fail, and "none".
FailPoints == {"none", "mkdir", "open", "dump", "fsync", "rename"}

\* write_message run from its entry to its return or raise, the statement
\* failat (if any) raising OSError.
RECURSIVE run_write(_, _, _, _)
run_write(n, st, failat, unlink_ok) ==
    IF st.w.pc \in {"done", "idle"} THEN st
    ELSE run_write(n, write_step(n, st, IF st.w.pc = "except" THEN unlink_ok
                                        ELSE st.w.pc # failat),
                   failat, unlink_ok)

write_message(n, st, m, failat, unlink_ok) ==
    run_write(n, write_begin(st, m), failat, unlink_ok)

SetStore(st) ==
    /\ files' = st.files
    /\ tmp' = st.tmp
    /\ w' = st.w
    /\ w2' = st.peer
    /\ UNCHANGED node

SetStore2(st) ==
    /\ files' = st.files
    /\ tmp' = st.tmp
    /\ w2' = st.w
    /\ w' = st.peer
    /\ UNCHANGED node

\* A direct FileStore.write_message call, statement by statement.
WriteBegin(m) == w.pc = "idle" /\ SetStore(write_begin(Store, m))

WriteMkdir(ok) == w.pc = "mkdir" /\ SetStore(write_mkdir(Store, ok))

WriteOpen(ok) == w.pc = "open" /\ SetStore(write_open(Store, ok))

WriteDump(ok) == w.pc = "dump" /\ SetStore(write_dump(Store, ok))

WriteFsync(ok) == w.pc = "fsync" /\ SetStore(write_fsync(Store, ok))

WriteRename(ok) == w.pc = "rename" /\ SetStore(write_rename(node, Store, ok))

WriteExcept(unlink_ok) == w.pc = "except" /\ SetStore(write_except(Store, unlink_ok))

\* The call has returned or raised; the caller takes the result.
WriteReturn == w.pc = "done" /\ SetStore([Store EXCEPT !.w = Idle])

\* The write_message call of the second worker: entry, one statement, return.
WriteBegin2(m) == w2.pc = "idle" /\ SetStore2(write_begin(Store2, m))

WriteStep2(ok) ==
    /\ w2.pc \notin {"idle", "done"}
    /\ SetStore2(write_step(node, Store2, ok))

WriteReturn2 == w2.pc = "done" /\ SetStore2([Store2 EXCEPT !.w = Idle])

\* ----------------------------------------------------------------- pipeline
\* GatewayClient.MAX_RETRIES and INITIAL_BACKOFF (in milliseconds).
MAX_RETRIES == 2
INITIAL_BACKOFF == 500

\* Raw request bodies: well-formed messages with the keys of the JSON schema
\* ("Test ID", "Test Status"), one with the field names instead
\* (populate_by_name=True accepts both), three malformed ones (an ID that is
\* no UUID, a lower-case project code, an unknown field) and a payload that
\* is JSON but not an object (an array).
BodyOf(id, project, extra) ==
    [ID |-> id, Project |-> project, Date |-> Date1, keys |-> "alias", extra |-> extra,
     object |-> TRUE]

ArrayBody == [BodyOf("-", "-", FALSE) EXCEPT !.object = FALSE]

NamedBody == [BodyOf("id1", "AAA", FALSE) EXCEPT !.keys = "name"]

RawBodies == {BodyOf("id1", "AAA", FALSE), BodyOf("id2", "BBB", FALSE), NamedBody,
              BodyOf("not-a-uuid", "AAA", FALSE), BodyOf("id1", "aaa", FALSE),
              BodyOf("id1", "AAA", TRUE), ArrayBody}

\* The parameter declaration `message: Dict[str, Any]`: the framework binds
\* the payload to it only when the payload is a JSON object.
is_object(body) == body.object

\* generate_request_id(): str(uuid.uuid4()), one opaque token per request.
generate_request_id == "rid-1"

\* Fault: unknown top-level fields are ignored (extra="ignore").
validate_allow_extra(body) ==
    /\ body.keys \in {"alias", "name"}
    /\ body.ID \in Ids
    /\ body.Project \in Projects

\* Message(**message): extra="forbid", every field required under its alias
\* or its name, validate_uuid, validate_project.
validate(body) ==
    /\ ~body.extra
    /\ body.keys \in {"alias", "name"}
    /\ body.ID \in Ids
    /\ body.Project \in Projects

\* validated_message.model_dump(): the fields under their names; the
\* aliases are used only with by_alias=True.
model_dump(body) ==
    [ID |-> body.ID, Project |-> body.Project, Date |-> body.Date, keys |-> "name"]

\* rid: request.state.request_id; resp_request_id, resp_header, detail: the
\* request_id of the response body, the X-Request-ID header of the response
\* ("-": none) and whether the body is the framework's validation detail.
IdleReq == [pc |-> "idle", dir |-> "-", body |-> BodyOf("-", "-", FALSE), msg |-> NoMsg,
            stages |-> <<>>, wl |-> "-", entry |-> "-", attempt |-> 0, posts |-> 0, sleeps |-> <<>>,
            writes |-> 0, checks |-> 0, gw |-> "-", store |-> "-", status |-> 0, success |-> FALSE,
            message_id |-> "-", error |-> "-", rid |-> "-", resp_request_id |-> "-",
            resp_header |-> "-", detail |-> FALSE]

\* The request passes a stage of the pipeline.
Stage(r, s) == [r EXCEPT !.stages = Append(@, s)]

\* JSONResponse(status_code=..., content=ErrorResponse(request_id=...))
\* returned by the handler; request_id_middleware then sets the header.
ErrorResponse(r, status_code) ==
    [Stage(r, "rejected") EXCEPT !.pc = "done", !.status = status_code,
                                 !.success = FALSE, !.error = "Invalid request",
                                 !.resp_request_id = r.rid, !.resp_header = r.rid]

\* An exception left the endpoint: generic_exception_handler builds the 500
\* response with request.state.request_id. The framework runs the handler
\* registered for Exception outside the @app.middleware("http") functions,
\* so the line that sets X-Request-ID is not reached.
generic_exception_handler(r) ==
    [ErrorResponse(r, 500) EXCEPT !.resp_header = "-"]

\* The payload cannot be bound to `message`: the framework's own handler
\* answers 422 with the validation detail, before the endpoint is entered;
\* the response passes request_id_middleware.
request_validation_error(r) ==
    [Stage(r, "rejected") EXCEPT !.pc = "done", !.status = 422, !.success = FALSE,
                                 !.detail = TRUE, !.resp_header = r.rid]

\* Fault: the acknowledgment carries a fixed id instead of the message's.
SuccessResponse_fixed_id(r, message_id) ==
    [Stage(r, "acknowledged") EXCEPT !.pc = "done", !.status = 200, !.success = TRUE,
                                     !.message_id = "id1",
                                     !.resp_request_id = r.rid, !.resp_header = r.rid]

\* SuccessResponse(request_id=..., message_id=message_id)
SuccessResponse(r, message_id) ==
    [Stage(r, "acknowledged") EXCEPT !.pc = "done", !.status = 200, !.success = TRUE,
                                     !.message_id = message_id,
                                     !.resp_request_id = r.rid, !.resp_header = r.rid]

\* The request after request_id_middleware has set its id.
Received(dir, body) ==
    Stage([IdleReq EXCEPT !.pc = "received", !.dir = dir, !.body = body,
                          !.rid = generate_request_id], "received")

\* Validate message schema.
Validated(r) == Stage([r EXCEPT !.msg = model_dump(r.body)], "validated")

\* History: what the whitelist as loaded by the check held for the project.
EntryOf(projects, code) ==
    IF code \notin DOMAIN projects THEN "absent"
    ELSE IF projects[code] THEN "enabled" ELSE "disabled"

\* Fault: a request the whitelist denies passes on to the next stage.
Checked_fail_open(r, o) ==
    LET r1 == [r EXCEPT !.wl = o.res, !.checks = @ + 1,
                        !.entry = IF o.res = "error" THEN "error"
                                  ELSE EntryOf(o.cache, r.msg.Project)]
    IN  IF o.res \in {"true", "false"} THEN Stage(r1, "whitelist-checked")
        ELSE generic_exception_handler(r1)

\* check_project_whitelist returned o.res ("true", "false") or raised ("error").
Checked(r, o) ==
    LET r1 == [r EXCEPT !.wl = o.res, !.checks = @ + 1,
                        !.entry = IF o.res = "error" THEN "error"
                                  ELSE EntryOf(o.cache, r.msg.Project)]
    IN  IF o.res = "true" THEN Stage(r1, "whitelist-checked")
        ELSE IF o.res = "false" THEN ErrorResponse(r1, 400)
        ELSE generic_exception_handler(r1)

\* What one attempt can end in: a response, or an httpx exception.
StatusCodes == {200, 302, 404, 500}

Outcomes == {[kind |-> "response", status |-> sc, json_ok |-> j] :
                 sc \in StatusCodes, j \in BOOLEAN}
            \cup {[kind |-> k, status |-> 0, json_ok |-> FALSE] :
                 k \in {"timeout", "connect_error", "transport_error"}}

\* Fault: GatewayUnavailableError is answered like GatewayError.
AfterGateway_unavailable_as_rejected(r, result) ==
    LET r1 == [r EXCEPT !.gw = result] IN
    IF result = "Ack" THEN SuccessResponse(Stage(r1, "delivered"), r.msg.ID)
    ELSE IF result \in {"GatewayUnavailableError", "GatewayError"} THEN ErrorResponse(r1, 400)
    ELSE generic_exception_handler(r1)

\* Fault: GatewayError is answered like GatewayUnavailableError.
AfterGateway_rejected_as_unavailable(r, result) ==
    LET r1 == [r EXCEPT !.gw = result] IN
    IF result = "Ack" THEN SuccessResponse(Stage(r1, "delivered"), r.msg.ID)
    ELSE IF result \in {"GatewayUnavailableError", "GatewayError"} THEN ErrorResponse(r1, 503)
    ELSE generic_exception_handler(r1)

\* The handler's mapping of what gateway_client.send_message returned or raised.
AfterGateway(r, result) ==
    LET r1 == [r EXCEPT !.gw = result] IN
    IF result = "Ack" THEN SuccessResponse(Stage(r1, "delivered"), r.msg.ID)
    ELSE IF result = "GatewayUnavailableError" THEN ErrorResponse(r1, 503)
    ELSE IF result = "GatewayError" THEN ErrorResponse(r1, 400)
    ELSE generic_exception_handler(r1)

\* Fault: the whitelist is looked at again before each retry, and a project
\* no longer allowed ends the request.
Backoff_recheck(r) ==
    IF is_project_allowed(r.msg.Project).res = "true"
    THEN [r EXCEPT !.pc = "sleeping",
                   !.sleeps = Append(r.sleeps, INITIAL_BACKOFF * 2 ^ r.attempt)]
    ELSE ErrorResponse(r, 400)

\* Fault: every backoff sleeps the base delay.
Backoff_constant(r) ==
    [r EXCEPT !.pc = "sleeping", !.sleeps = Append(r.sleeps, INITIAL_BACKOFF)]

\* Fault: the coroutine suspends on an event that nothing sets.
Backoff_unwoken(r) ==
    [r EXCEPT !.pc = "suspended",
              !.sleeps = Append(r.sleeps, INITIAL_BACKOFF * 2 ^ r.attempt)]

\* asyncio.sleep(INITIAL_BACKOFF * 2 ** attempt), then continue.
Backoff(r) ==
    [r EXCEPT !.pc = "sleeping",
              !.sleeps = Append(r.sleeps, INITIAL_BACKOFF * 2 ^ r.attempt)]

\* Fault: the loop allows one attempt more (attempt <= MAX_RETRIES).
gateway_reply_extra_retry(r, o) ==
    IF (o.kind = "response" /\ o.status >= 500) \/ o.kind \in {"timeout", "connect_error"}
    THEN IF r.attempt <= MAX_RETRIES
         THEN Backoff(r)
         ELSE AfterGateway(r, "GatewayUnavailableError")
    ELSE IF o.kind # "response" THEN AfterGateway(r, "Exception")
    ELSE IF o.status >= 400 THEN AfterGateway(r, "GatewayError")
    ELSE IF o.json_ok THEN AfterGateway(r, "Ack")
    ELSE AfterGateway(r, "Exception")

\* Fault: a client-error response is retried like a server error.
gateway_reply_retry_4xx(r, o) ==
    IF (o.kind = "response" /\ o.status >= 400) \/ o.kind \in {"timeout", "connect_error"}
    THEN IF r.attempt < MAX_RETRIES
         THEN Backoff(r)
         ELSE AfterGateway(r, IF o.kind = "response" /\ o.status < 500
                              THEN "GatewayError" ELSE "GatewayUnavailableError")
    ELSE IF o.kind # "response" THEN AfterGateway(r, "Exception")
    ELSE IF o.json_ok THEN AfterGateway(r, "Ack")
    ELSE AfterGateway(r, "Exception")

\* Fault: the loop gives up after the first retry.
gateway_reply_one_retry(r, o) ==
    IF (o.kind = "response" /\ o.status >= 500) \/ o.kind \in {"timeout", "connect_error"}
    THEN IF r.attempt < MAX_RETRIES - 1
         THEN Backoff(r)
         ELSE AfterGateway(r, "GatewayUnavailableError")
    ELSE IF o.kind # "response" THEN AfterGateway(r, "Exception")
    ELSE IF o.status >= 400 THEN AfterGateway(r, "GatewayError")
    ELSE IF o.json_ok THEN AfterGateway(r, "Ack")
    ELSE AfterGateway(r, "Exception")

\* One iteration of the retry loop of GatewayClient.send_message ended with o.
gateway_reply(r, o) ==
    IF o.kind = "response"
    THEN IF o.status >= 500
         THEN IF r.attempt < MAX_RETRIES
              THEN Backoff(r)
              ELSE AfterGateway(r, "GatewayUnavailableError")
         ELSE IF o.status >= 400
              THEN AfterGateway(r, "GatewayError")
              ELSE IF o.json_ok
                   THEN AfterGateway(r, "Ack")
                   ELSE AfterGateway(r, "Exception")
    ELSE IF o.kind \in {"timeout", "connect_error"}
         THEN IF r.attempt < MAX_RETRIES
              THEN Backoff(r)
              ELSE AfterGateway(r, "GatewayUnavailableError")
         ELSE AfterGateway(r, "Exception")

\* The handler's mapping of what file_store.write_message returned or raised.
AfterStore(r, result) ==
    LET r1 == [r EXCEPT !.store = result, !.writes = @ + 1] IN
    IF result = "ok" THEN SuccessResponse(Stage(r1, "persisted"), r.msg.ID)
    ELSE ErrorResponse(r1, 500)

\* POST /messages: send_message up to its first suspension, the first
\* client.post of the gateway client, or up to its early return.
SendMessage(body) ==
    /\ req.pc = "idle"
    /\ LET r == Received("out", body) IN
       IF ~is_object(body)
       THEN /\ req' = request_validation_error(r)
            /\ UNCHANGED wlvars
       ELSE IF ~validate(body)
       THEN /\ req' = ErrorResponse(r, 400)
            /\ UNCHANGED wlvars
       ELSE LET v == Validated(r)
                o == is_project_allowed(v.msg.Project)
                c == Checked(v, o)
            IN  /\ Commit(o)
                /\ req' = IF o.res = "true"
                          THEN [c EXCEPT !.pc = "posting", !.attempt = 0, !.posts = 1]
                          ELSE c
    /\ UNCHANGED <<storevars, last>>

\* The attempt in flight ends with outcome o.
GwReply(o) ==
    /\ req.pc = "posting"
    /\ req' = gateway_reply(req, o)
    /\ UNCHANGED <<wlvars, storevars, last>>

\* The backoff sleep is over: the next iteration posts again.
GwWake ==
    /\ req.pc = "sleeping"
    /\ req' = [req EXCEPT !.pc = "posting", !.attempt = @ + 1, !.posts = @ + 1]
    /\ UNCHANGED <<wlvars, storevars, last>>

\* POST /dmz/messages: receive_message from entry to response; the handler
\* never suspends, the file write is synchronous.
ReceiveMessage(body, failat, unlink_ok) ==
    /\ req.pc = "idle"
    /\ w.pc = "idle"
    /\ LET r == Received("in", body) IN
       IF ~is_object(body)
       THEN /\ req' = request_validation_error(r)
            /\ UNCHANGED <<wlvars, storevars>>
       ELSE IF ~validate(body)
       THEN /\ req' = ErrorResponse(r, 400)
            /\ UNCHANGED <<wlvars, storevars>>
       ELSE LET v == Validated(r)
                o == is_project_allowed(v.msg.Project)
                c == Checked(v, o)
            IN  /\ Commit(o)
                /\ IF o.res = "true"
                   THEN LET st == write_message(node, Store, v.msg, failat, unlink_ok)
                        IN  /\ req' = AfterStore(c, st.w.res)
                            /\ SetStore([st EXCEPT !.w = Idle])
                   ELSE /\ req' = c
                        /\ UNCHANGED storevars
    /\ UNCHANGED last

\* The response has been sent; the next request can be taken.
Respond ==
    /\ req.pc = "done"
    /\ req' = IdleReq
    /\ UNCHANGED <<wlvars, storevars, last>>

\* ------------------------------------------------------- requests in flight
\* The tasks the event loop runs requests in, and the ids uuid4 can give.
Tasks == {"task1", "task2"}
RequestIds == {"rid-1", "rid-2", "rid-3"}

\* request_id_var = ContextVar("request_id", default=""): one value per
\* task context; `latest` is history, the value set last in any context.
NoContext == [ctx |-> [k \in Tasks |-> ""], latest |-> ""]

\* set_request_id(request_id) called in task k.
set_request_id(v, k, request_id) ==
    [ctx |-> [v.ctx EXCEPT ![k] = request_id], latest |-> request_id]

\* Fault: the id is kept in one module-level variable shared by all tasks.
get_request_id_global(v, k) == v.latest

\* get_request_id() called in task k.
get_request_id(v, k) == v.ctx[k]

\* A request in flight: r as for `req`; request_id is the local variable of
\* GatewayClient.send_message; hdrs is history, the X-Request-ID header of
\* each attempt made.
IdleFlight == [r |-> IdleReq, request_id |-> "", hdrs |-> <<>>]

\* The ids of the requests in flight.
InFlight == {flight[k].r.rid : k \in {j \in Tasks : flight[j].r.pc # "idle"}}

\* request_id_middleware up to `await call_next(request)`: the id is
\* generated (uuid4: unlike every id in flight), put into the context and
\* into request.state.
FlightReceive(k, body, rid) ==
    /\ flight[k].r.pc = "idle"
    /\ rid \notin InFlight
    /\ request_id_var' = set_request_id(request_id_var, k, rid)
    /\ flight' = [flight EXCEPT ![k] =
                     [IdleFlight EXCEPT !.r = [Received("out", body) EXCEPT !.rid = rid]]]
    /\ UNCHANGED wlvars

\* send_message from its entry to its early return or to the first
\* client.post, which carries the id read from the context.
FlightHandle(k) ==
    /\ flight[k].r.pc = "received"
    /\ LET r == flight[k].r
           body == r.body
       IN  IF ~is_object(body)
           THEN /\ flight' = [flight EXCEPT ![k].r = request_validation_error(r)]
                /\ UNCHANGED wlvars
           ELSE IF ~validate(body)
           THEN /\ flight' = [flight EXCEPT ![k].r = ErrorResponse(r, 400)]
                /\ UNCHANGED wlvars
           ELSE LET v == Validated(r)
                    o == is_project_allowed(v.msg.Project)
                    c == Checked(v, o)
                    request_id == get_request_id(request_id_var, k)
                IN  /\ Commit(o)
                    /\ flight' = [flight EXCEPT ![k] =
                          IF o.res = "true"
                          THEN [r |-> [c EXCEPT !.pc = "posting", !.attempt = 0, !.posts = 1],
                                request_id |-> request_id,
                                hdrs |-> <<request_id>>]
                          ELSE [@ EXCEPT !.r = c]]
    /\ UNCHANGED request_id_var

\* The attempt in flight of request k ends with outcome o.
FlightReply(k, o) ==
    /\ flight[k].r.pc = "posting"
    /\ flight' = [flight EXCEPT ![k].r = gateway_reply(@, o)]
    /\ UNCHANGED <<wlvars, request_id_var>>

\* The backoff sleep of request k is over: the next attempt is posted with
\* the same headers argument.
FlightWake(k) ==
    /\ flight[k].r.pc = "sleeping"
    /\ flight' = [flight EXCEPT
                     ![k].r = [@ EXCEPT !.pc = "posting", !.attempt = @ + 1, !.posts = @ + 1],
                     ![k].hdrs = Append(@, flight[k].request_id)]
    /\ UNCHANGED <<wlvars, request_id_var>>

\* The response of request k has been sent; its task ends.
FlightRespond(k) ==
    /\ flight[k].r.pc = "done"
    /\ flight' = [flight EXCEPT ![k] = IdleFlight]
    /\ UNCHANGED <<wlvars, request_id_var>>

\* -------------------------------------------------------------- user portal
\* user.whitelist and user.gateway_client, None until set_whitelist and
\* set_gateway_client are called.
NoGlobals == [whitelist |-> FALSE, gateway_client |-> FALSE]

\* What a logged-in user types into the send form.
Forms == [ID : {"id1", "not-a-uuid"}, Project : {"AAA", "bbb"}]

\* project.upper().strip()
upper(project) == IF project = "bbb" THEN "BBB" ELSE project

\* message_data as the send form builds it: under the keys "TestID", "Area",
\* "Status", "Date" on the corporate node ("legacy"), under the keys of the
\* schema on the low side.
message_data(n, form) ==
    [BodyOf(form.ID, upper(form.Project), FALSE)
        EXCEPT !.keys = IF n = "corporate" THEN "legacy" ELSE "alias"]

\* validated_message.model_dump(by_alias=True)
model_dump_by_alias(body) ==
    [ID |-> body.ID, Project |-> body.Project, Date |-> body.Date, keys |-> "alias"]

\* RedirectResponse(url="/user/send?message=..." or "?error=...", 303)
PortalRedirect(r, sent) ==
    [Stage(r, IF sent THEN "acknowledged" ELSE "rejected")
        EXCEPT !.pc = "done", !.status = 303, !.success = sent,
               !.message_id = IF sent THEN r.msg.ID ELSE "-",
               !.resp_header = r.rid]

\* The form handler's mapping of what gateway_client.send_message returned
\* or raised.
PortalAfterGateway(r, result) ==
    LET r1 == [r EXCEPT !.gw = result] IN
    IF result = "Ack" THEN PortalRedirect(Stage(r1, "delivered"), TRUE)
    ELSE IF result \in {"GatewayUnavailableError", "GatewayError"}
         THEN PortalRedirect(r1, FALSE)
    ELSE generic_exception_handler(r1)

\* set_whitelist(wl)
SetWhitelist ==
    /\ node = "corporate"
    /\ ~portal.whitelist
    /\ portal' = [portal EXCEPT !.whitelist = TRUE]
    /\ UNCHANGED <<wlvars, req>>

\* set_gateway_client(client)
SetGatewayClient ==
    /\ ~portal.gateway_client
    /\ portal' = [portal EXCEPT !.gateway_client = TRUE]
    /\ UNCHANGED <<wlvars, req>>

\* POST /user/send on the corporate node, for a logged-in user, up to the
\* first client.post or to the handler's early return.
user_send_message_submit(form) ==
    /\ node = "corporate"
    /\ req.pc = "idle"
    /\ LET body == message_data(node, form)
           r == Received("portal", body)
       IN  IF ~validate(body)
           THEN /\ req' = PortalRedirect(r, FALSE)
                /\ UNCHANGED wlvars
           ELSE LET v == Validated(r)
                    o == is_project_allowed(v.msg.Project)
                    c == IF portal.whitelist
                         THEN [v EXCEPT !.wl = o.res, !.checks = @ + 1]
                         ELSE v
                IN  /\ IF portal.whitelist THEN Commit(o) ELSE UNCHANGED wlvars
                    /\ req' = IF portal.whitelist /\ o.res = "error"
                              THEN generic_exception_handler(c)
                              ELSE IF portal.whitelist /\ o.res = "false"
                              THEN PortalRedirect(c, FALSE)
                              ELSE IF ~portal.gateway_client
                              THEN PortalRedirect(c, FALSE)
                              ELSE [c EXCEPT !.pc = "posting", !.attempt = 0, !.posts = 1]
    /\ UNCHANGED portal

\* POST /user/send on the low side, for a logged-in user, up to the first
\* client.post or to the handler's early return.
send_message_submit(form) ==
    /\ node = "low_side"
    /\ req.pc = "idle"
    /\ LET body == message_data(node, form)
           r == Received("portal", body)
       IN  req' = IF ~validate(body) THEN PortalRedirect(r, FALSE)
                  ELSE IF ~portal.gateway_client
                  THEN PortalRedirect([r EXCEPT !.msg = model_dump_by_alias(body)], FALSE)
                  ELSE [Stage([r EXCEPT !.msg = model_dump_by_alias(body)], "validated")
                           EXCEPT !.pc = "posting", !.attempt = 0, !.posts = 1]
    /\ UNCHANGED <<wlvars, portal>>

\* The attempt in flight for the form handler ends with outcome o.
PortalGwReply(o) ==
    /\ req.pc = "posting"
    /\ req.dir = "portal"
    /\ LET a == gateway_reply(req, o)
       IN  req' = IF a.pc = "sleeping" THEN a ELSE PortalAfterGateway(req, a.gw)
    /\ UNCHANGED <<wlvars, portal>>

\* ----------------------------------------------------------------- sessions
\* secrets.token_urlsafe(32) values, user names, and "no cookie".
Tokens == {"tok1", "tok2", "tok3"}
Usernames == {"alice"}
NoToken == "-"

\* 8 * 60 * 60 seconds, the unit of the clock when it times sessions.
SESSION_LIFETIME == 1

NoSessions == [t \in {} |-> [type |-> "-", username |-> "-", expiry |-> 0]]

\* History: issued, the tokens created so far; ended, those invalidated or
\* found expired; verified, those a verification accepted; call, the last call.
NoSessionHistory ==
    [issued |-> {}, ended |-> {}, verified |-> {},
     call |-> [op |-> "-", token |-> "-", result |-> "-"]]

\* create_admin_session(): the record stored under the new token.
create_admin_session ==
    [type |-> "admin", username |-> "admin", expiry |-> clock + SESSION_LIFETIME]

\* create_user_session(username); the low side's record has no type.
create_user_session(n, username) ==
    [type |-> IF n = "corporate" THEN "user" ELSE "-", username |-> username,
     expiry |-> clock + SESSION_LIFETIME]

\* verify_admin_session(token): the result and active_sessions after it.
verify_admin_session(token) ==
    IF token = NoToken \/ token \notin DOMAIN active_sessions
    THEN [result |-> "False", sessions |-> active_sessions]
    ELSE IF active_sessions[token].type # "admin"
    THEN [result |-> "False", sessions |-> active_sessions]
    ELSE IF clock > active_sessions[token].expiry
    THEN [result |-> "False", sessions |-> Drop(active_sessions, token)]
    ELSE [result |-> "True", sessions |-> active_sessions]

\* Fault: the session's type is not looked at.
verify_user_session_any_type(n, token) ==
    IF token = NoToken \/ token \notin DOMAIN active_sessions
    THEN [result |-> "None", sessions |-> active_sessions]
    ELSE IF clock > active_sessions[token].expiry
    THEN [result |-> "None", sessions |-> Drop(active_sessions, token)]
    ELSE [result |-> active_sessions[token].username, sessions |-> active_sessions]

\* verify_user_session(token): the username or None, and active_sessions
\* after it; the corporate node checks the type, the low side has none.
verify_user_session(n, token) ==
    IF token = NoToken \/ token \notin DOMAIN active_sessions
    THEN [result |-> "None", sessions |-> active_sessions]
    ELSE IF n = "corporate" /\ active_sessions[token].type # "user"
    THEN [result |-> "None", sessions |-> active_sessions]
    ELSE IF clock > active_sessions[token].expiry
    THEN [result |-> "None", sessions |-> Drop(active_sessions, token)]
    ELSE [result |-> active_sessions[token].username, sessions |-> active_sessions]

\* invalidate_session(token)
invalidate_session(token) ==
    IF token \in DOMAIN active_sessions THEN Drop(active_sessions, token)
    ELSE active_sessions

\* The last call, for the history.
AuthCall(op, token, result) == [op |-> op, token |-> token, result |-> result]

CreateAdminSession(token) ==
    /\ node = "corporate"
    /\ token \notin sess.issued
    /\ active_sessions' = Put(active_sessions, token, create_admin_session)
    /\ sess' = [sess EXCEPT !.issued = @ \cup {token},
                            !.call = AuthCall("create_admin_session", token, token)]
    /\ UNCHANGED clock

CreateUserSession(token, username) ==
    /\ token \notin sess.issued
    /\ active_sessions' = Put(active_sessions, token, create_user_session(node, username))
    /\ sess' = [sess EXCEPT !.issued = @ \cup {token},
                            !.call = AuthCall("create_user_session", token, token)]
    /\ UNCHANGED clock

\* A verification or a logout: what it removed has ended.
AfterAuth(op, token, result, sessions) ==
    /\ active_sessions' = sessions
    /\ sess' = [sess EXCEPT
                   !.ended = @ \cup ((DOMAIN active_sessions) \ (DOMAIN sessions)),
                   !.verified = IF result \in {"False", "None", "-"} THEN @
                                ELSE @ \cup {token},
                   !.call = AuthCall(op, token, result)]
    /\ UNCHANGED clock

VerifyAdminSession(token) ==
    /\ node = "corporate"
    /\ LET v == verify_admin_session(token)
       IN  AfterAuth("verify_admin_session", token, v.result, v.sessions)

VerifyUserSession(token) ==
    LET v == verify_user_session(node, token)
    IN  AfterAuth("verify_user_session", token, v.result, v.sessions)

InvalidateSession(token) ==
    AfterAuth("invalidate_session", token, "-", invalidate_session(token))

\* Time passes: datetime.now() is later.
Elapse ==
    /\ clock < MaxTime
    /\ clock' = clock + 1
    /\ UNCHANGED <<active_sessions, sess>>

\* ------------------------------------------------------------ specifications
\* ProjectWhitelist.__init__ followed by _init_file on a fresh directory.
InitWhitelist ==
    /\ wl_file = FileOf(EmptyMap)
    /\ wl_mtime = 1
    /\ cache = EmptyMap
    /\ last_mtime = 0
    /\ clock = 1

\* FileStore.__init__: empty destination tree and temp directory.
InitStore ==
    /\ files = NoFiles
    /\ tmp = [x \in {} |-> [full |-> FALSE, msg |-> NoMsg]]
    /\ w = Idle
    /\ w2 = Idle

\* No whitelist call in progress, the lock free, no temp file.
InitCallers ==
    /\ th = [c \in Callers |-> IdleCall]
    /\ lock = "-"
    /\ wl_tmp = NoTmp
    /\ flight = [k \in Tasks |-> IdleFlight]
    /\ request_id_var = NoContext
    /\ active_sessions = NoSessions
    /\ sess = NoSessionHistory
    /\ portal = NoGlobals

\* The corporate node after start-up.
Init ==
    /\ InitWhitelist
    /\ InitStore
    /\ node = "corporate"
    /\ req = IdleReq
    /\ last = NoCall("init")
    /\ replies = <<>>
    /\ InitCallers

\* A FileStore of either node after construction.
InitAnyStore ==
    /\ InitWhitelist
    /\ InitStore
    /\ node \in Nodes
    /\ req = IdleReq
    /\ last = NoCall("init")
    /\ replies = <<>>
    /\ InitCallers

\* Calls on the whitelist by the admin UI or the CLI, edits of its file, time.
WhitelistEnv ==
    \/ \E c \in Projects, e \in BOOLEAN, ok \in BOOLEAN : AddProject(c, e, ok)
    \/ \E c \in Projects, ok \in BOOLEAN : EnableProject(c, ok)
    \/ \E c \in Projects, ok \in BOOLEAN : DisableProject(c, ok)
    \/ \E c \in Projects, ok \in BOOLEAN : RemoveProject(c, ok)
    \/ \E content \in FileContents : ExternalRewrite(content)
    \/ Tick

\* The whitelist object called directly, each call recorded in `last`.
NextWhitelist ==
    \/ \E c \in Projects :
          IsAllowed(c) /\ last' = LastOp("is_allowed", c, FALSE, is_project_allowed(c))
    \/ ListProjects /\ last' = LastOp("list", "-", FALSE, list_projects.out)
    \/ \E c \in Projects, e \in BOOLEAN, ok \in BOOLEAN :
          AddProject(c, e, ok) /\ last' = LastOp("add", c, e, add_project(c, e, ok))
    \/ \E c \in Projects, ok \in BOOLEAN :
          EnableProject(c, ok) /\ last' = LastOp("enable", c, TRUE, enable_project(c, ok))
    \/ \E c \in Projects, ok \in BOOLEAN :
          DisableProject(c, ok) /\ last' = LastOp("disable", c, FALSE, disable_project(c, ok))
    \/ \E c \in Projects, ok \in BOOLEAN :
          RemoveProject(c, ok) /\ last' = LastOp("remove", c, FALSE, remove_project(c, ok))
    \/ \E content \in FileContents :
          ExternalRewrite(content) /\ last' = NoCall("external")
    \/ Tick /\ last' = NoCall("tick")

SpecWhitelist == Init /\ [][NextWhitelist /\ UNCHANGED <<storevars, req, replies, concvars, flightvars, uivars>>]_vars

\* A FileStore called directly, one write_message at a time.
NextStore ==
    \/ \E m \in Messages : WriteBegin(m)
    \/ \E ok \in BOOLEAN : WriteMkdir(ok)
    \/ \E ok \in BOOLEAN : WriteOpen(ok)
    \/ \E ok \in BOOLEAN : WriteDump(ok)
    \/ \E ok \in BOOLEAN : WriteFsync(ok)
    \/ \E ok \in BOOLEAN : WriteRename(ok)
    \/ \E ok \in BOOLEAN : WriteExcept(ok)
    \/ WriteReturn

SpecStore == InitAnyStore /\ [][NextStore /\ UNCHANGED <<wlvars, req, last, replies, concvars, flightvars, uivars>>]_vars

\* The messages the relay delivers, possibly more than once: one message
\* id, in two versions.
DeliveryMessages == {m \in Messages : m.Project = "AAA" /\ m.ID = "id1"}

\* Two worker processes of a node persisting deliveries into the same
\* directories, their write_message calls interleaved statement by
\* statement; no file operation fails for a reason of its own.
NextDeliveries ==
    \/ \E m \in DeliveryMessages : WriteBegin(m)
    \/ WriteMkdir(TRUE)
    \/ WriteOpen(TRUE)
    \/ WriteDump(TRUE)
    \/ WriteFsync(TRUE)
    \/ WriteRename(TRUE)
    \/ WriteExcept(TRUE)
    \/ WriteReturn
    \/ \E m \in DeliveryMessages : WriteBegin2(m)
    \/ WriteStep2(TRUE)
    \/ WriteReturn2

SpecDeliveries ==
    InitAnyStore /\ [][NextDeliveries /\ UNCHANGED <<wlvars, req, last, replies, concvars, flightvars, uivars>>]_vars

\* The corporate node serving requests while its whitelist is administered.
\* A finished handler's response leaves before anything else happens. The
\* write of an inbound message can fail at any step; a failing unlink in its
\* cleanup, which changes nothing in the response, is left to SpecStore.
NextPipeline ==
    \/ \E b \in RawBodies : SendMessage(b)
    \/ \E o \in Outcomes : GwReply(o)
    \/ GwWake
    \/ \E b \in RawBodies, f \in FailPoints : ReceiveMessage(b, f, TRUE)
    \/ Respond
    \/ req.pc # "done" /\ WhitelistEnv /\ UNCHANGED <<storevars, req, last>>

Spec == Init /\ [][NextPipeline /\ UNCHANGED <<replies, concvars, flightvars, uivars>>]_vars

\* The corporate node started on an existing whitelist.json that has every
\* project enabled (_init_file finds the file and leaves it).
InitGateway ==
    /\ wl_file = FileOf([c \in Projects |-> TRUE])
    /\ wl_mtime = 1
    /\ cache = EmptyMap
    /\ last_mtime = 0
    /\ clock = 1
    /\ InitStore
    /\ node = "corporate"
    /\ req = IdleReq
    /\ last = NoCall("init")
    /\ replies = <<>>
    /\ InitCallers

\* Outbound requests against a gateway that answers each attempt in any way,
\* the outcome of every attempt recorded in `replies`.
NextGateway ==
    \/ \E b \in RawBodies : SendMessage(b) /\ replies' = <<>>
    \/ \E o \in Outcomes : GwReply(o) /\ replies' = Append(replies, o)
    \/ GwWake /\ UNCHANGED replies
    \/ Respond /\ replies' = <<>>

SpecGateway == InitGateway /\ [][NextGateway /\ UNCHANGED <<concvars, flightvars, uivars>>]_vars

\* The calls a caller can make: (op, code, enabled).
Calls ==
    {<<"is_allowed", c, FALSE>> : c \in Projects} \cup {<<"list", "-", FALSE>>}
    \cup {<<"add", c, e>> : c \in Projects, e \in BOOLEAN}
    \cup {<<"enable", c, TRUE>> : c \in Projects}
    \cup {<<"disable", c, FALSE>> : c \in Projects}
    \cup {<<"remove", c, FALSE>> : c \in Projects}

\* Two threads of the server calling the whitelist object at once, a round
\* of at most one call each at a time; no file operation fails.
NextThreads ==
    \/ \E c \in Threads, k \in Calls : Call(c, k[1], k[2], k[3], RoundBase)
    \/ \E c \in Threads : GetProjects(c)
    \/ \E c \in Threads : Acquire(c)
    \/ \E c \in Threads : WlOpen(c, TRUE)
    \/ \E c \in Threads : WlDump(c, TRUE)
    \/ \E c \in Threads : WlReplace(c, TRUE)
    \/ \E c \in Threads : WlStat(c)
    \/ RoundEnd

SpecThreads ==
    Init /\ [][NextThreads /\ UNCHANGED <<storevars, req, last, replies, flightvars, uivars>>]_vars

\* The calls a writer makes.
WriteCalls == {k \in Calls : k[1] \notin {"is_allowed", "list"}}

\* The server (one of its threads) and runs of the CLI working on the same
\* file, file operations failing or not, time passing.
Processes == {"t1", Cli}

\* Both work on the entry of one project.
ProcessCalls == {k \in Calls : k[2] \in {"AAA", "-"}}

NextProcesses ==
    \/ \E k \in ProcessCalls : Call("t1", k[1], k[2], k[3], EmptyMap)
    \/ \E k \in ProcessCalls \cap WriteCalls : Call(Cli, k[1], k[2], k[3], EmptyMap)
    \/ \E c \in Processes : GetProjects(c)
    \/ \E c \in Processes : Acquire(c)
    \/ \E c \in Processes, ok \in BOOLEAN : WlOpen(c, ok)
    \/ \E c \in Processes, ok \in BOOLEAN : WlDump(c, ok)
    \/ \E c \in Processes, ok \in BOOLEAN : WlReplace(c, ok)
    \/ \E c \in Processes : WlExcept(c)
    \/ \E c \in Processes : WlStat(c)
    \/ \E c \in Processes : Return(c)
    \/ Tick /\ UNCHANGED concvars

SpecProcesses ==
    Init /\ [][NextProcesses /\ UNCHANGED <<storevars, req, last, replies, flightvars, uivars>>]_vars

\* The node serving outbound and inbound requests, one at a time, against a
\* gateway that answers each attempt in any way.
NextServing ==
    \/ NextGateway
    \/ \E b \in RawBodies, f \in FailPoints : ReceiveMessage(b, f, TRUE) /\ replies' = <<>>

\* The event loop resumes a coroutine once what it awaits is there: the
\* attempt in flight ends (httpx gives a response or raises, by the
\* per-attempt timeout at the latest), the sleep timer fires, and a finished
\* handler's response is sent.
AttemptEnds ==
    \E o \in Outcomes :
        GwReply(o) /\ replies' = Append(replies, o)
                   /\ UNCHANGED <<concvars, flightvars, uivars>>

SleepEnds == GwWake /\ UNCHANGED <<replies, concvars, flightvars, uivars>>

ResponseSent == Respond /\ replies' = <<>> /\ UNCHANGED <<concvars, flightvars, uivars>>

SpecServing ==
    /\ InitGateway
    /\ [][NextServing /\ UNCHANGED <<concvars, flightvars, uivars>>]_vars
    /\ WF_vars(AttemptEnds) /\ WF_vars(SleepEnds) /\ WF_vars(ResponseSent)

\* The bodies of the requests in flight: a well-formed message and one with
\* an unknown field.
FlightBodies == {BodyOf("id1", "AAA", FALSE), BodyOf("id1", "AAA", TRUE)}

\* Two outbound requests handled at once, interleaved where a handler awaits.
NextFlight ==
    \/ \E k \in Tasks, b \in FlightBodies, rid \in RequestIds : FlightReceive(k, b, rid)
    \/ \E k \in Tasks : FlightHandle(k)
    \/ \E k \in Tasks, o \in Outcomes : FlightReply(k, o)
    \/ \E k \in Tasks : FlightWake(k)
    \/ \E k \in Tasks : FlightRespond(k)

SpecFlight ==
    InitGateway
    /\ [][NextFlight /\ UNCHANGED <<storevars, req, last, replies, concvars, uivars>>]_vars

\* What thread c does next inside a whitelist call it has entered: a lock
\* section, or a statement of _write_data that succeeds or raises.
ThreadStep(c) ==
    /\ \/ GetProjects(c)
       \/ Acquire(c)
       \/ \E ok \in BOOLEAN : WlOpen(c, ok)
       \/ \E ok \in BOOLEAN : WlDump(c, ok)
       \/ \E ok \in BOOLEAN : WlReplace(c, ok)
       \/ WlExcept(c)
       \/ WlStat(c)
    /\ UNCHANGED <<storevars, req, last, replies, flightvars, uivars>>

\* The file as another process can leave it: gone, not JSON, or empty again.
Damage == {[state |-> s, projects |-> EmptyMap] : s \in {"invalid", "missing"}}
          \cup {FileOf(EmptyMap)}

\* A read and the three kinds of write, on one project.
LockingCalls == {<<"is_allowed", "AAA", FALSE>>, <<"add", "AAA", TRUE>>,
                 <<"disable", "AAA", FALSE>>, <<"remove", "AAA", FALSE>>}

\* Two threads of the server calling the whitelist object, each call after
\* the other, reads and writes of the file failing or not.
NextLocking ==
    \/ \E c \in Threads, k \in LockingCalls : Call(c, k[1], k[2], k[3], EmptyMap)
    \/ \E c \in Threads : ThreadStep(c)
    \/ \E c \in Threads : Return(c)
    \/ \E content \in Damage : ExternalRewrite(content) /\ UNCHANGED concvars

\* A thread that can run does run, and a thread waiting for the lock gets it
\* when the lock keeps being released: each thread's steps are strongly fair.
SpecLocking ==
    /\ Init
    /\ [][NextLocking /\ UNCHANGED <<storevars, req, last, replies, flightvars, uivars>>]_vars
    /\ \A c \in Threads : SF_vars(ThreadStep(c))

\* The user portal of either node sending messages typed into its form,
\* its globals set at some point after start-up, while projects are added to
\* and disabled in the whitelist.
NextPortal ==
    \/ SetWhitelist /\ UNCHANGED replies
    \/ SetGatewayClient /\ UNCHANGED replies
    \/ \E form \in Forms : user_send_message_submit(form) /\ replies' = <<>>
    \/ \E form \in Forms : send_message_submit(form) /\ replies' = <<>>
    \/ \E o \in Outcomes : PortalGwReply(o) /\ replies' = Append(replies, o)
    \/ GwWake /\ UNCHANGED <<replies, portal>>
    \/ Respond /\ replies' = <<>> /\ UNCHANGED portal
    \/ /\ req.pc # "done"
       /\ \/ \E c \in Projects, e \in BOOLEAN : AddProject(c, e, TRUE)
          \/ \E c \in Projects : DisableProject(c, TRUE)
       /\ UNCHANGED <<req, replies, portal>>

SpecPortal ==
    InitAnyStore
    /\ [][NextPortal /\ UNCHANGED <<storevars, last, concvars, flightvars,
                                    active_sessions, sess>>]_vars

\* Sessions of either node created, verified and invalidated as time passes.
NextSessions ==
    \/ \E t \in Tokens : CreateAdminSession(t)
    \/ \E t \in Tokens, u \in Usernames : CreateUserSession(t, u)
    \/ \E t \in Tokens \cup {NoToken} : VerifyAdminSession(t)
    \/ \E t \in Tokens \cup {NoToken} : VerifyUserSession(t)
    \/ \E t \in Tokens : InvalidateSession(t)
    \/ Elapse

SpecSessions ==
    InitAnyStore
    /\ [][NextSessions /\ UNCHANGED <<wl_file, wl_mtime, cache, last_mtime, storevars, req,
                                      last, replies, concvars, flightvars, portal>>]_vars

\* -------------------------------------------------------------------- claims
\* What a caller and the collaborators can observe of a finished request,
\* the request id apart.
Observable(r) ==
    <<r.status, r.success, r.error, r.message_id, r.posts, r.writes, r.gw, r.store,
      r.stages>>

\* C1: a request whose project has no entry in the whitelist as loaded by its
\* check ends rejected with 400, and neither the gateway client nor the file
\* store is called for it.
C1_AbsentProjectRejected ==
    req.entry = "absent" =>
        /\ req.pc = "done"
        /\ req.status = 400 /\ ~req.success
        /\ req.posts = 0 /\ req.gw = "-"
        /\ req.writes = 0 /\ req.store = "-"

C1_Witness == req.entry = "absent" /\ req.pc = "done" /\ req.dir = "out"

\* The request of r handled against a whitelist from which its project's
\* entry has been taken out.
WithEntryRemoved(r) ==
    LET m == Without(cache, r.msg.Project)
        v == Validated(Received(r.dir, r.body))
    IN  Checked(v, [res |-> Bool2Str(allowed_in(m, r.msg.Project)), cache |-> m])

\* C2: a request whose project is present but disabled is answered exactly as
\* the same request would be were the entry absent: same status, same body,
\* no gateway call, no store call, in both directions.
C2_DisabledLikeAbsent ==
    req.entry = "disabled" =>
        /\ req.pc = "done"
        /\ Observable(req) = Observable(WithEntryRemoved(req))
        /\ req.posts = 0 /\ req.writes = 0

C2_Witness == req.entry = "disabled" /\ req.pc = "done" /\ req.dir = "in"

\* C3: is_project_allowed(p) returns true exactly when the whitelist as loaded
\* by the call has an entry for p with enabled = true; without an entry the
\* answer is false.  A call that re-read the file loaded the file's map.
C3_AllowedIffEnabledEntry ==
    (last.op = "is_allowed" /\ last.res # "error") =>
        /\ last.res = "true" <=> (last.code \in DOMAIN cache /\ cache[last.code])
        /\ last.code \notin DOMAIN cache => last.res = "false"
        /\ last.reloaded => (wl_file.state = "ok" /\ cache = wl_file.projects)

C3_Witness ==
    /\ last.op = "is_allowed" /\ last.res = "false"
    /\ last.code \notin DOMAIN cache /\ cache # EmptyMap

\* C4: a well-formed message with an enabled project, delivered (the gateway
\* client returned) or persisted (write_message returned), is acknowledged
\* with 200 and message_id equal to the message's ID.
C4_AcknowledgedWithId ==
    (req.pc = "done" /\ req.entry = "enabled" /\ (req.gw = "Ack" \/ req.store = "ok")) =>
        /\ req.status = 200 /\ req.success
        /\ req.message_id = req.body.ID
        /\ req.stages[Len(req.stages)] = "acknowledged"

C4_Witness ==
    /\ req.pc = "done" /\ req.gw = "Ack" /\ req.status = 200
    /\ req.message_id = "id2"

\* C5: a write_message that returns leaves the destination tree as it was at
\* entry but for the record at the message's path, which now holds this
\* message: an existing record is replaced, not merged, kept or refused, and
\* no second record appears.
C5_OverwriteLastWins ==
    (w.pc = "done" /\ w.res = "ok") =>
        files = Put(w.before, get_final_path(node, w.msg), w.msg)

C5_Witness == w.pc = "done" /\ w.res = "ok" /\ w.replaced = "different"

\* C6 as stated: no two records carry the same message id.
C6_OneRecordPerId ==
    \A p, q \in DOMAIN files : PathId(p) = PathId(q) => p = q

\* The attribute that, with the id, decides the path on node n.
PathKey(n, m) == IF n = "corporate" THEN m.Project ELSE parse_date_components(m.Date)

\* C6 amended: no two records carry the same message id and the same project
\* (corporate) or the same day (low side); every record is at its message's path.
C6_OneRecordPerIdAndKey ==
    /\ \A p, q \in DOMAIN files :
          (files[p].ID = files[q].ID /\ PathKey(node, files[p]) = PathKey(node, files[q]))
              => p = q
    /\ \A p \in DOMAIN files : PathId(p) = files[p].ID

C6_Witness ==
    /\ w.pc = "done" /\ w.res = "ok" /\ w.replaced = "different"
    /\ \E p, q \in DOMAIN files : p # q /\ PathId(p) = PathId(q)

\* C7 as stated: a write_message that raises leaves the destination tree as
\* it was at entry and no temp file of the message.
C7_NoTempAfterFailure ==
    (w.pc = "done" /\ w.res = "FileStoreError") =>
        /\ files = w.before
        /\ get_tmp_path(w.msg) \notin DOMAIN tmp

\* C7 amended: a write_message that raises FileStoreError leaves the
\* destination tree as it was at entry, and no temp file of the message
\* unless the unlink of the cleanup itself failed.
C7_FailureLeavesNoTrace ==
    (w.pc = "done" /\ w.res = "FileStoreError") =>
        /\ files = w.before
        /\ w.cleanup # "unlink_failed" => get_tmp_path(w.msg) \notin DOMAIN tmp

C7_Witness ==
    /\ w.pc = "done" /\ w.res = "FileStoreError" /\ w.cleanup = "unlinked"
    /\ get_final_path(node, w.msg) \in DOMAIN files

\* C8: an is_project_allowed call made when the file's mtime differs from the
\* last one seen answers from the file's content, so a project disabled by a
\* direct edit is refused; and the call right after a successful
\* add(p, enabled=True) returns true.
C8_ExternalEditObserved ==
    [][/\ (last'.op = "is_allowed" /\ wl_file.state = "ok" /\ current_mtime # last_mtime)
            => /\ last'.res = Bool2Str(allowed_in(wl_file.projects, last'.code))
               /\ cache' = wl_file.projects
               /\ last_mtime' = current_mtime
       /\ (last.op = "add" /\ last.res = "ok" /\ last.val
             /\ last'.op = "is_allowed" /\ last'.code = last.code)
            => last'.res = "true"]_vars

C8_Witness ==
    /\ last.op = "is_allowed" /\ last.reloaded /\ last.res = "false"
    /\ last.code \in DOMAIN cache /\ ~cache[last.code]
    /\ wl_mtime > 1

\* The cache is the file's map and reads answer from it without change.
ReadsReflectFile ==
    /\ wl_file.state = "ok"
    /\ cache = wl_file.projects
    /\ \A c \in Projects :
          /\ is_project_allowed(c).res = Bool2Str(allowed_in(wl_file.projects, c))
          /\ is_project_allowed(c).cache = wl_file.projects
    /\ list_projects.items = {<<c, wl_file.projects[c]>> : c \in DOMAIN wl_file.projects}

\* C9: after a successful add, enable, disable or remove the cache and the
\* file hold the written entry and reads answer from it; a read made in such
\* a state returns what was written and leaves that state in place.
C9_WritesObservedByReads ==
    [][/\ (last'.op \in {"add", "enable", "disable", "remove"} /\ last'.res = "ok")
            => /\ ReadsReflectFile'
               /\ EntryOf(cache', last'.code) =
                     (IF last'.op = "remove" THEN "absent"
                      ELSE IF last'.val THEN "enabled" ELSE "disabled")
       /\ (ReadsReflectFile /\ last'.op \in {"is_allowed", "list"})
            => /\ ReadsReflectFile'
               /\ last'.op = "is_allowed"
                     => last'.res = Bool2Str(allowed_in(wl_file.projects, last'.code))]_vars

C9_Witness ==
    /\ last.op = "disable" /\ last.res = "ok"
    /\ is_project_allowed(last.code).res = "false"
    /\ ~is_project_allowed(last.code).reloaded

\* C10: add_project on a code that has an entry in the whitelist as loaded
\* raises the already-exists error and writes nothing: the file and its mtime
\* stay, the cache is the loaded map (the old cache when no reload was due),
\* the entry stays; and an add that succeeds found no entry.
C10_AddExistingRefused ==
    [][/\ (last'.op = "add" /\ last'.res = "exists")
            => /\ wl_file' = wl_file /\ wl_mtime' = wl_mtime
               /\ cache' = get_projects.cache
               /\ last_mtime' = get_projects.last_mtime
               /\ last'.code \in DOMAIN cache'
               /\ current_mtime = last_mtime => cache' = cache
       /\ (last'.op = "add" /\ last'.res = "ok")
            => (~get_projects.err /\ last'.code \notin DOMAIN get_projects.cache)]_vars

C10_Witness ==
    /\ last.op = "add" /\ last.res = "exists"
    /\ last.code \in DOMAIN cache /\ cache[last.code] # last.val
    /\ wl_file.state = "ok" /\ wl_file.projects = cache

\* What is_project_allowed answers for each code ("error" when it raises).
AllowedAnswers == [c \in Projects |-> is_project_allowed(c).res]

\* C11: enable_project, disable_project and remove_project called with a code
\* that has no entry in the whitelist as loaded return False: the file and
\* its mtime stay, no entry is created, the cache is the loaded map, and
\* is_project_allowed answers for every code as it did before the call.
C11_MissingCodeReturnsFalse ==
    [][(/\ last'.op \in {"enable", "disable", "remove"}
        /\ ~get_projects.err
        /\ last'.code \notin DOMAIN get_projects.cache)
            => /\ last'.res = "false"
               /\ wl_file' = wl_file /\ wl_mtime' = wl_mtime
               /\ cache' = get_projects.cache
               /\ last_mtime' = get_projects.last_mtime
               /\ last'.code \notin DOMAIN cache'
               /\ AllowedAnswers' = AllowedAnswers]_vars

C11_Witness ==
    /\ last.op \in {"enable", "remove"} /\ last.res = "false"
    /\ last.code \notin DOMAIN cache /\ cache # EmptyMap
    /\ wl_file = FileOf(cache)

\* The outcomes after which the retry loop goes round again.
Retryable(o) ==
    \/ o.kind \in {"timeout", "connect_error"}
    \/ o.kind = "response" /\ o.status >= 500

ClientError(o) == o.kind = "response" /\ o.status >= 400 /\ o.status < 500

\* C12: a deliver call issues at most 3 attempts, each attempt but the first
\* following an attempt that ended in a connection failure, a timeout or a
\* 5xx response.
C12_AtMostThreeAttempts ==
    /\ req.posts <= 3
    /\ req.posts = Len(replies) + (IF req.pc = "posting" THEN 1 ELSE 0)
    /\ \A i \in 1..Len(replies) : i < req.posts => Retryable(replies[i])

C12_Witness ==
    /\ req.posts = 3 /\ Len(replies) = 3
    /\ replies[1].kind = "connect_error"
    /\ replies[2].kind = "response"
    /\ replies[3].kind = "timeout"

\* C13: a 4xx response ends the deliver call at once as GatewayError: it is
\* the last attempt, no sleep follows it, whatever retries remain.
C13_ClientErrorStopsAtOnce ==
    \A i \in 1..Len(replies) :
        ClientError(replies[i]) =>
            /\ i = Len(replies)
            /\ req.pc = "done" /\ req.gw = "GatewayError"
            /\ req.posts = i /\ Len(req.sleeps) = i - 1

C13_Witness ==
    /\ Len(replies) = 2 /\ ClientError(replies[2])
    /\ req.pc = "done" /\ req.attempt = 1

\* C14: three attempts that all ended in a timeout, a connection error or a
\* 5xx response make the deliver call raise GatewayUnavailableError, which the
\* handler answers with 503 and not with the 400 of GatewayError; nothing
\* else raises GatewayUnavailableError.
C14_ExhaustionIsUnavailable ==
    /\ (Len(replies) = 3 /\ \A i \in 1..3 : Retryable(replies[i]))
          => (req.pc = "done" /\ req.gw = "GatewayUnavailableError" /\ req.status = 503)
    /\ req.gw = "GatewayUnavailableError"
          => (Len(replies) = 3 /\ \A i \in 1..3 : Retryable(replies[i]))
    /\ req.gw = "GatewayError" => (req.status = 400 /\ ClientError(replies[Len(replies)]))

C14_Witness ==
    /\ req.pc = "done" /\ req.gw = "GatewayUnavailableError"
    /\ replies[1].kind = "response" /\ replies[2].kind = "connect_error"
    /\ replies[3].kind = "timeout"

\* C15: the sleeps of a deliver call are 0.5 s, then 1.0 s (in milliseconds
\* here), one after each failed attempt that is followed by another attempt
\* and none after the last attempt.
C15_BackoffBetweenAttemptsOnly ==
    /\ req.sleeps \in {<<>>, <<500>>, <<500, 1000>>}
    /\ req.pc = "sleeping"
          => (Len(req.sleeps) = req.posts /\ req.posts < 3
              /\ Retryable(replies[Len(replies)]))
    /\ (req.pc \in {"posting", "done"} /\ req.posts > 0)
          => Len(req.sleeps) = req.posts - 1

C15_Witness ==
    /\ req.pc = "done" /\ req.posts = 3 /\ req.sleeps = <<500, 1000>>
    /\ Retryable(replies[3])

\* C16: after one or two 5xx responses the deliver call sleeps and posts
\* again; two 5xx responses followed by a success on the third attempt make
\* it return, after exactly 3 attempts and two sleeps, the second at least
\* twice as long as the first.
C16_SuccessOnThirdAttempt ==
    /\ (/\ Len(replies) \in {1, 2}
        /\ \A i \in 1..Len(replies) :
              replies[i].kind = "response" /\ replies[i].status >= 500)
          => /\ req.pc \in {"sleeping", "posting"}
             /\ req.gw = "-"
             /\ req.pc = "posting" => req.posts = Len(replies) + 1
    /\ (/\ Len(replies) = 3
        /\ \A i \in 1..2 : replies[i].kind = "response" /\ replies[i].status >= 500
        /\ replies[3].kind = "response" /\ replies[3].status = 200 /\ replies[3].json_ok)
          => /\ req.pc = "done" /\ req.gw = "Ack"
             /\ req.status = 200 /\ req.success
             /\ req.posts = 3
             /\ Len(req.sleeps) = 2
             /\ req.sleeps[2] >= 2 * req.sleeps[1]

C16_Witness ==
    /\ Len(replies) = 3 /\ req.gw = "Ack" /\ req.pc = "done"
    /\ replies[1].kind = "response" /\ replies[1].status >= 500
    /\ replies[2].kind = "response" /\ replies[2].status >= 500
    /\ replies[3].status = 200

\* The failure kind of a finished request ("none": acknowledged).
FailureKind(r) ==
    IF r.success THEN "none"
    ELSE IF r.wl = "-" THEN "SchemaRejection"
    ELSE IF r.wl = "false" THEN "WhitelistRejection"
    ELSE IF r.gw = "GatewayError" THEN "GatewayRejected"
    ELSE IF r.gw = "GatewayUnavailableError" THEN "GatewayUnavailable"
    ELSE IF r.store = "FileStoreError" THEN "StoreFailure"
    ELSE "Unexpected"

\* C17 as stated: schema, whitelist and gateway rejections are answered 400,
\* a store failure 500, an unavailable gateway 503; no failure is answered
\* 200 and no status other than 200, 400, 500, 503 leaves the two endpoints.
C17_FailureKindsToStatus ==
    req.pc = "done" =>
        LET k == FailureKind(req) IN
        /\ req.status \in {200, 400, 500, 503}
        /\ k \in {"SchemaRejection", "WhitelistRejection", "GatewayRejected"}
              => req.status = 400
        /\ k = "StoreFailure" => req.status = 500
        /\ k = "GatewayUnavailable" => req.status = 503
        /\ k # "none" => req.status # 200

\* C18 as stated: on the outbound path a failed delivery is never answered
\* with the status of a validation failure (400).
C18_DeliveryStatusDiffers ==
    (req.pc = "done" /\ req.dir = "out" /\ req.gw \notin {"-", "Ack"}) => req.status # 400

\* C18 amended: on the outbound path a delivery that failed because the
\* gateway was unavailable is answered 503 and one that failed unexpectedly
\* 500, neither a status a validation failure gets (400, 422); a delivery
\* the gateway rejected is answered 400 like a validation failure. All end
\* at rejected.
C18_UnavailableStatusDiffers ==
    (req.pc = "done" /\ req.dir = "out") =>
        /\ req.gw = "GatewayUnavailableError" => req.status = 503
        /\ req.gw = "Exception" => req.status = 500
        /\ req.gw = "GatewayError" => req.status = 400
        /\ FailureKind(req) = "SchemaRejection" => req.status \in {400, 422}
        /\ req.gw \notin {"-", "Ack"} => req.stages[Len(req.stages)] = "rejected"

C18_Witness ==
    /\ req.pc = "done" /\ req.dir = "out" /\ req.gw = "GatewayError"
    /\ req.status = 400 /\ Len(replies) = 1

\* C19 as stated: the body of every failure response is the fixed error
\* document: success false, error "Invalid request", nothing else but the
\* request id.
C19_FixedFailureBody ==
    (req.pc = "done" /\ ~req.success) =>
        /\ req.error = "Invalid request"
        /\ ~req.detail
        /\ req.message_id = "-"

\* C20 as stated: every response carries the request's id in the
\* X-Request-ID header and as request_id in the body, the two being equal.
C20_RequestIdInHeaderAndBody ==
    req.pc = "done" =>
        /\ req.rid # "-"
        /\ req.resp_header = req.rid
        /\ req.resp_request_id = req.rid

\* C21: a message with an unrecognized top-level field is rejected by the
\* schema validation: the request ends rejected with 400 in the step that
\* received it, and neither the whitelist (file, cache, last-seen mtime) nor
\* the store is touched and no attempt is posted to the gateway.
C21_UnknownFieldRejected ==
    [][(req.pc = "idle" /\ req'.pc # "idle" /\ req'.body.extra)
          => /\ req'.pc = "done"
             /\ req'.status = 400 /\ ~req'.success
             /\ req'.stages = <<"received", "rejected">>
             /\ req'.wl = "-" /\ req'.posts = 0 /\ req'.writes = 0
             /\ UNCHANGED <<wlvars, storevars>>]_vars

C21_Witness ==
    /\ req.pc = "done" /\ req.body.extra /\ req.status = 400
    /\ req.body.Project \in DOMAIN wl_file.projects
    /\ wl_file.projects[req.body.Project]

\* C23: when the file write of add, enable, disable or remove fails, the call
\* raises and leaves the file, its mtime, the cache and the last-seen mtime
\* as the read-through of the call left them, so that is_project_allowed
\* answers for every code as it did before the call.
C23_FailedWriteChangesNothing ==
    [][(last'.op \in {"add", "enable", "disable", "remove"} /\ last'.res = "write_error")
            => /\ wl_file' = wl_file /\ wl_mtime' = wl_mtime
               /\ cache' = get_projects.cache
               /\ last_mtime' = get_projects.last_mtime
               /\ AllowedAnswers' = AllowedAnswers]_vars

\* The value a call returns when it runs alone on a whitelist holding map m,
\* and the map it leaves.
seq_result(m, call) ==
    IF call.op = "is_allowed" THEN Bool2Str(allowed_in(m, call.code))
    ELSE IF call.op = "list" THEN "ok"
    ELSE IF call.op = "add"
         THEN IF call.code \in DOMAIN m THEN "exists" ELSE "ok"
    ELSE IF call.code \in DOMAIN m THEN "ok" ELSE "false"

seq_map(m, call) ==
    IF call.op \in {"is_allowed", "list"} THEN m
    ELSE IF call.op = "add"
         THEN IF call.code \in DOMAIN m THEN m ELSE With(m, call.code, call.val)
    ELSE IF call.code \notin DOMAIN m THEN m
    ELSE IF call.op = "remove" THEN Without(m, call.code)
    ELSE With(m, call.code, call.val)

\* The calls of `order`, run one after the other from map m, return what the
\* threads got and end in the whitelist as it is now.
RECURSIVE SeqOk(_, _)
SeqOk(m, order) ==
    IF order = <<>>
    THEN wl_file = FileOf(m) /\ cache = m
    ELSE LET call == th[Head(order)]
         IN  /\ seq_result(m, call) = call.res
             /\ call.op = "list" => call.projects = m
             /\ SeqOk(seq_map(m, call), Tail(order))

Finished == {c \in Threads : th[c].pc = "done"}

Orders(D) == {o \in [1..Cardinality(D) -> D] : \A i, j \in DOMAIN o : o[i] = o[j] => i = j}

\* C22: when the calls two threads made at the same time have all returned,
\* their results and the whitelist (file and cache) are those of the same
\* calls made one after the other in some order; two adds of distinct codes
\* that both succeeded leave both codes in the cache and in the file.
C22_Linearizable ==
    (Finished # {} /\ \A c \in Threads : th[c].pc \in {"idle", "done"})
        => /\ \E o \in Orders(Finished) :
                 SeqOk(th[CHOOSE c \in Finished : TRUE].base, o)
           /\ \A c, d \in Finished :
                 (/\ th[c].op = "add" /\ th[d].op = "add" /\ th[c].code # th[d].code
                  /\ th[c].res = "ok" /\ th[d].res = "ok")
                    => /\ {th[c].code, th[d].code} \subseteq DOMAIN cache
                       /\ {th[c].code, th[d].code} \subseteq DOMAIN wl_file.projects

\* C24: the content at the whitelist path is at all times a complete
\* document, while writers are between the steps of _write_data too.
C24_NeverPartialDocument == wl_file.state = "ok"

\* C25: with one write_message call at a time, every file in the destination
\* tree is at all times one complete message stored under its own id; while
\* a call is between its steps the tree is as the call found it and no
\* result has been given; and a call that reports success has its message at
\* the destination and its temp file gone.
C25_DestinationWholeOrAbsent ==
    /\ \A p \in DOMAIN files : files[p] \in Messages /\ files[p].ID = PathId(p)
    /\ w.pc \in {"mkdir", "open", "dump", "fsync", "rename", "except"}
          => files = w.before /\ w.res = "-"
    /\ w.res = "ok"
          => /\ w.pc = "done"
             /\ get_final_path(node, w.msg) \in DOMAIN files
             /\ files[get_final_path(node, w.msg)] = w.msg
             /\ get_tmp_path(w.msg) \notin DOMAIN tmp

C25_Witness ==
    /\ w.pc = "dump"
    /\ get_tmp_path(w.msg) \in DOMAIN tmp /\ ~tmp[get_tmp_path(w.msg)].full
    /\ get_final_path(node, w.msg) \in DOMAIN files
    /\ files[get_final_path(node, w.msg)] # w.msg

\* The records of message id x in the destination tree.
RecordsOf(x) == {p \in DOMAIN files : PathId(p) = x}

\* C26: deliveries of the same message, one after the other or with their
\* persist steps interleaved, all succeed (the handler acknowledges exactly
\* the calls that return), and once they have, one record of the message is
\* at the destination and no temp file is left.
C26_DuplicateDeliveryTolerated ==
    /\ \A x \in {w, w2} : x.pc = "done" => x.res = "ok"
    /\ (w.pc = "done" /\ w2.pc = "done" /\ w.msg = w2.msg)
          => /\ RecordsOf(w.msg.ID) = {get_final_path(node, w.msg)}
             /\ files[get_final_path(node, w.msg)] = w.msg
             /\ tmp = [x \in {} |-> [full |-> FALSE, msg |-> NoMsg]]

\* The stages of a request that is acknowledged, in order.
StagesOf(dir) ==
    <<"received", "validated", "whitelist-checked",
      IF dir = "in" THEN "persisted" ELSE "delivered", "acknowledged">>

\* C27: the stages a request has passed are an initial part of received,
\* validated, whitelist-checked, persisted (inbound) or delivered (outbound),
\* acknowledged, with at most "rejected" after it; rejected is final and no
\* stage follows it; the whitelist is consulted only for a validated message;
\* the store and the gateway are called only after the whitelist check has
\* returned allowed; and a finished request is acknowledged or rejected.
C27_StagesInOrder ==
    LET n == Len(req.stages)
        rej == n > 0 /\ req.stages[n] = "rejected"
        k == IF rej THEN n - 1 ELSE n
    IN  /\ k <= 5
        /\ SubSeq(req.stages, 1, k) = SubSeq(StagesOf(req.dir), 1, k)
        /\ rej => (req.pc = "done" /\ k \in 1..3)
        /\ req.wl # "-" => k >= 2
        /\ k >= 3 => req.wl = "true"
        /\ (req.posts > 0 \/ req.writes > 0) => (k >= 3 /\ req.wl = "true")
        /\ req.posts > 0 => req.dir = "out" /\ req.writes = 0
        /\ req.writes > 0 => req.dir = "in" /\ req.posts = 0
        /\ req.pc = "done" <=> (rej \/ k = 5)
        /\ req.pc = "idle" <=> n = 0

C27_Witness ==
    /\ req.pc = "done" /\ req.dir = "out" /\ req.posts = 3
    /\ req.stages = <<"received", "validated", "whitelist-checked", "rejected">>

\* C28: every request that has entered the pipeline reaches the terminal
\* state, acknowledged or rejected, and its response is sent; on the way an
\* outbound request makes at most 3 attempts and sleeps at most twice.
C28_EveryRequestTerminates ==
    /\ [](req.posts <= MAX_RETRIES + 1 /\ Len(req.sleeps) <= MAX_RETRIES)
    /\ (req.pc # "idle") ~> (/\ req.pc = "done"
                             /\ req.stages[Len(req.stages)] \in {"acknowledged", "rejected"}
                             /\ req.status # 0)
    /\ (req.pc = "done") ~> (req.pc = "idle")

C28_Witness ==
    /\ req.pc = "done" /\ req.dir = "out"
    /\ req.posts = MAX_RETRIES + 1 /\ Len(req.sleeps) = MAX_RETRIES
    /\ req.stages[Len(req.stages)] = "acknowledged"

\* C29: a deliver call that has ended has returned the gateway's
\* acknowledgment or raised GatewayUnavailableError or GatewayError, whatever
\* the gateway did on each attempt; nothing else reaches the handler.
C29_ThreeOutcomesOnly ==
    (req.pc = "done" /\ req.posts > 0)
        => req.gw \in {"Ack", "GatewayUnavailableError", "GatewayError"}

\* C30: every attempt of a request, the first and each retry, carries the
\* id generated for that request, which is the request_id of the response it
\* gets; requests in flight together have different ids, so no attempt
\* carries the id of another request.
C30_HeaderIsOwnRequestId ==
    \A k \in Tasks :
        LET f == flight[k] IN
        /\ Len(f.hdrs) = f.r.posts
        /\ \A i \in DOMAIN f.hdrs :
              /\ f.hdrs[i] = f.r.rid
              /\ \A j \in Tasks \ {k} :
                    flight[j].r.pc # "idle" => f.hdrs[i] # flight[j].r.rid
        /\ (f.r.pc = "done" /\ f.r.posts > 0) => f.r.resp_request_id = f.r.rid

C30_Witness ==
    /\ flight["task1"].r.pc = "done" /\ Len(flight["task1"].hdrs) = 3
    /\ flight["task2"].r.pc = "sleeping" /\ Len(flight["task2"].hdrs) = 2
    /\ flight["task1"].r.rid # flight["task2"].r.rid

\* The fields of a message document.
MessageFields == {"ID", "Project", "Date", "keys"}

\* C31: what an acknowledged request handed to the gateway or to the store,
\* and the record then found at the stored path, equal the validated input
\* message field for field.
C31_MessageUnchanged ==
    (req.pc = "done" /\ req.success)
        => /\ \A f \in MessageFields : req.msg[f] = req.body[f]
           /\ req.dir = "in"
                 => /\ get_final_path(node, req.msg) \in DOMAIN files
                    /\ \A f \in MessageFields :
                          files[get_final_path(node, req.msg)][f] = req.body[f]

\* The path the claim names for message m on node n: root, project, id on
\* the project-keyed node; root, "incoming", the characters 4-7, 2-3 and 0-1
\* (counted from 0) of the date, id on the date-keyed node.
ExpectedPath(n, m) ==
    IF n = "corporate"
    THEN <<"master", m.Project, m.ID>>
    ELSE <<"incoming", <<m.Date[5], m.Date[6], m.Date[7], m.Date[8]>>,
           <<m.Date[3], m.Date[4]>>, <<m.Date[1], m.Date[2]>>, m.ID>>

OthersOf(f, x) == {p \in DOMAIN f : f[p].ID # x}

\* A write_message call that returned its path left the record of every
\* other id as it was at entry, created none, and its own record holds its
\* own message.
FrameOfWrite ==
    /\ OthersOf(files, w.msg.ID) = OthersOf(w.before, w.msg.ID)
    /\ \A p \in OthersOf(w.before, w.msg.ID) : files[p] = w.before[p]
    /\ \E p \in DOMAIN files : files[p] = w.msg

\* C33 as stated: a successful write_message leaves the records of all other
\* ids untouched, and the temp directory empty.
C33_OthersUntouchedTmpDirEmpty ==
    (w.pc = "done" /\ w.res = "ok") => FrameOfWrite /\ DOMAIN tmp = {}

\* C33 amended: a successful write_message leaves the records of all other
\* ids untouched, and no temp file of its own message; the temp file an
\* earlier failed call of another id could not unlink is still there.
C33_OthersUntouchedOwnTmpGone ==
    (w.pc = "done" /\ w.res = "ok") =>
        /\ FrameOfWrite
        /\ get_tmp_path(w.msg) \notin DOMAIN tmp

C33_Witness ==
    /\ w.pc = "done" /\ w.res = "ok"
    /\ OthersOf(w.before, w.msg.ID) # {}
    /\ \E p \in OthersOf(files, w.msg.ID) :
          PathKey(node, files[p]) = PathKey(node, w.msg)
    /\ DOMAIN tmp # {}

\* C34: with no whitelist call in progress and the cache loaded, a last-seen
\* mtime equal to the file's mtime means the cache is the map in the file.
C34_CacheCoherent ==
    ( /\ \A c \in Callers : th[c].pc = "idle"
      /\ last_mtime # 0
      /\ wl_file.state = "ok"
      /\ last_mtime = current_mtime )
        => cache = wl_file.projects

\* C35: a request taken while whitelist.json is missing or cannot be read as
\* JSON, and that reaches the whitelist check, does not pass it: nothing is
\* posted or written, and the response is a failure with the fixed error
\* string.
C35_FailsClosed ==
    [][ ( /\ req.pc = "idle"
          /\ req'.pc # "idle"
          /\ req'.wl # "-"
          /\ wl_file.state # "ok" )
          => /\ req'.wl # "true"
             /\ req'.pc = "done"
             /\ req'.posts = 0 /\ req'.writes = 0
             /\ files' = files
             /\ ~req'.success
             /\ req'.error = "Invalid request" ]_vars

\* C36: a request has consulted the whitelist at most once, and once before
\* anything is posted or written; while it is past the check, changes of the
\* whitelist leave it as it is; and a request that has posted ends with what
\* the gateway client returned or raised, whatever the whitelist says by then.
C36_CheckedOnceThenCommitted ==
    /\ [](/\ req.checks <= 1
          /\ req.wl # "-" <=> req.checks = 1
          /\ (req.posts > 0 \/ req.writes > 0) => (req.checks = 1 /\ req.wl = "true")
          /\ (req.pc = "done" /\ req.posts > 0) =>
                /\ req.gw # "-"
                /\ req.success <=> req.gw = "Ack"
                /\ req.gw = "GatewayError" => req.status = 400
                /\ req.gw = "GatewayUnavailableError" => req.status = 503)
    /\ [][(req.checks = 1 /\ req' # IdleReq)
             => /\ req'.checks = 1 /\ req'.wl = req.wl /\ req'.entry = req.entry
                /\ wlvars' # wlvars => req' = req]_vars

C36_Witness ==
    /\ req.pc = "done" /\ req.success /\ req.dir = "out"
    /\ Len(req.sleeps) = MAX_RETRIES
    /\ req.entry = "enabled"
    /\ wl_file.state = "ok" /\ req.msg.Project \notin DOMAIN wl_file.projects
    /\ req.msg.Project \notin DOMAIN cache

\* C37: a deliver call returns the acknowledgment only from an attempt whose
\* response had a 2xx status.
C37_AckOnly2xx ==
    (req.pc = "done" /\ req.gw = "Ack")
        => /\ Len(replies) > 0
           /\ replies[Len(replies)].kind = "response"
           /\ replies[Len(replies)].status \in 200..299

\* C38: a request that has posted to the gateway has, before that, asked
\* is_project_allowed about its message's project and got true.
C38_NoPostWithoutCheck ==
    req.posts > 0 => (req.checks = 1 /\ req.wl = "true" /\ req.entry = "enabled")

\* C40: a token that was invalidated or found expired is no longer in
\* active_sessions; whenever it is called, verify_user_session accepts only a
\* token that is in active_sessions, was issued and has not ended, is not
\* past its expiry and (corporate node) is of type user, and gives its user
\* name; verify_admin_session accepts only such a token of type admin; and a
\* verification that finds the token of its type expired removes it.
C40_SessionLifetime ==
    /\ sess.ended \cap DOMAIN active_sessions = {}
    /\ DOMAIN active_sessions \subseteq sess.issued
    /\ \A t \in Tokens \cup {NoToken} :
          LET u == verify_user_session(node, t)
              a == verify_admin_session(t)
              live == /\ t \in DOMAIN active_sessions
                      /\ t \in sess.issued \ sess.ended
                      /\ clock <= active_sessions[t].expiry
          IN  /\ u.result # "None" =>
                    /\ live
                    /\ node = "corporate" => active_sessions[t].type = "user"
                    /\ u.result = active_sessions[t].username
                    /\ u.sessions = active_sessions
              /\ (node = "corporate" /\ a.result = "True") =>
                    /\ live
                    /\ active_sessions[t].type = "admin"
                    /\ a.sessions = active_sessions
              /\ ~(u.result # "None" /\ node = "corporate" /\ a.result = "True")
              /\ (t \in DOMAIN active_sessions /\ clock > active_sessions[t].expiry) =>
                    /\ active_sessions[t].type # "admin" => t \notin DOMAIN u.sessions
                    /\ active_sessions[t].type = "admin" => t \notin DOMAIN a.sessions
    /\ sess.call.op \in {"verify_user_session", "verify_admin_session"} =>
          /\ sess.call.token \in sess.ended =>
                sess.call.result \in {"None", "False"}
          /\ sess.call.result \notin {"None", "False"} =>
                sess.call.token \in DOMAIN active_sessions

C40_Witness ==
    /\ node = "corporate"
    /\ sess.call = AuthCall("verify_user_session", "tok1", "None")
    /\ "tok1" \in sess.verified \cap sess.ended
    /\ \E t \in DOMAIN active_sessions :
          active_sessions[t].type = "admin" /\ t \in sess.verified
    /\ \E t \in sess.ended : t \in sess.verified /\ t # "tok1"

\* The statements of _save_projects' `with self._lock` block.
InSaveSection == {"open", "dump", "replace", "except", "stat"}

====
